---- MODULE Spec2Model ----
(***************************************************************************)
(* Tiered synchronisation primitives of library/std/src/sys/windows/locks: *)
(* the tier selector (mutex/compat.rs), the exclusive lock Mutex with its  *)
(* three backends (mutex.rs, mutex/*.rs), ReentrantMutex (mutex.rs),       *)
(* Condvar (condvar.rs), and MovableRWLock and the static RWLock          *)
(* (rwlock.rs) with the lazy install atomic_boxed_init (mutex/compat.rs).  *)
(*                                                                         *)
(* Every thread is a small program counter machine: op[t] is the API call  *)
(* the thread is in (or the last one it finished), pc[t] its position      *)
(* inside that call.  One action is one step of the code between two       *)
(* points where another thread can interleave (one OS call, or one access  *)
(* to the held flag).  The host primitives (SRW lock, critical section,    *)
(* CreateMutex handle, manual-reset event, condition variable) follow the  *)
(* Win32 contract of the calls the backends make.                          *)
(***************************************************************************)
EXTENDS Naturals, FiniteSets, Sequences, TLC

\* ------------------------------------------------------------ bounds
NThreads == 3
MaxDepth == 2
MaxCalls == 5
NCallers == 2

Threads == 1..NThreads
\* The owner field of a free native lock: a value that is no thread.
NoThread == CHOOSE n \in 0..NThreads : n \notin Threads

Caps == {"TryAcquireSRWLockExclusive", "TryEnterCriticalSection"}
Kinds == {"SrwLock", "CriticalSection", "Legacy"}

VARIABLES
    AVAILABLE,   \* compat_fn! AVAILABLE flag of each optional capability
    phase,       \* "xcu": probe initialisers still to run; "crt": the selector's init still to run; "main": after them
    MUTEX_KIND,  \* static mut MUTEX_KIND
    mutex,       \* the Mutex: [life, inner, held]
    cv,          \* the Condvar: [life, inner]
    rmutex,      \* the ReentrantMutex: [life, inner]
    rused,       \* which backend each ReentrantMutex operation dispatched to
    op,          \* per thread: the API call in progress / last finished
    pc,          \* per thread: position inside the call ("idle": not in a call)
    ret,         \* per thread: result of the last finished call
    acq,         \* per thread: successful Mutex acquisitions not yet unlocked
    racq,        \* per thread: successful ReentrantMutex acquisitions not yet unlocked
    obs,         \* per thread: owner of the native primitive seen by its last acquire attempt
    scen,        \* test driver: which scenario is run ("free": any calls)
    lazy,        \* a lazy probe (compat_fn_lazy!): its statics [PTR, AVAILABLE] and what lookup answers on this host
    local,       \* per thread: the locals of its call of the lazy probe
    round,       \* test driver: position in the scenario
    wres,        \* per thread: the host wait of wait/wait_timeout: its time-out, then its result
    missed,      \* the notifications that woke no one they were meant for (see NoteMissed)
    rwlock,      \* the MovableRWLock: [life, lock, writer, readers]
    heap,        \* the boxed fallback Mutexes, by the thread that allocated them
    re,          \* per thread: the pointer held in atomic_boxed_init / returned by remutex()
    rwacq,       \* per thread: successful read and write acquisitions not yet unlocked
    remret,      \* every pointer a remutex() call has returned
    slock        \* the static RWLock: [lock, held, writer]

\* The state of the MovableRWLock and of its lazily installed fallback lock.
rwvars == <<rwlock, heap, re, rwacq, remret, slock>>

vars == <<AVAILABLE, phase, MUTEX_KIND, mutex, cv, rmutex, rused,
          op, pc, ret, acq, racq, obs, scen, lazy, local, round, wres, missed, rwvars>>

\* ------------------------------------------------------------ tier selector

\* compat_fn!: pub fn available() -> bool { unsafe { AVAILABLE } }
available(cap) == AVAILABLE[cap]

\* A selector that asks for the intermediate capability first.
select_kind_tecs_first(srw, tecs) ==
    IF tecs THEN "CriticalSection"
    ELSE IF srw THEN "SrwLock"
    ELSE "Legacy"

\* The value init() stores into MUTEX_KIND, from the two probe answers.
select_kind(srw, tecs) ==
    IF srw THEN "SrwLock"
    ELSE IF tecs THEN "CriticalSection"
    ELSE "Legacy"

\* A selector that can run again after start-up and then falls back to Legacy.
compat_init_rerun ==
    /\ MUTEX_KIND' = IF phase = "crt"
                     THEN select_kind(available("TryAcquireSRWLockExclusive"),
                                      available("TryEnterCriticalSection"))
                     ELSE "Legacy"
    /\ phase' = "main"
    /\ UNCHANGED rwvars
    /\ UNCHANGED <<missed, wres, AVAILABLE, mutex, cv, rmutex, rused, op, pc, ret, acq, racq,
                   obs, scen, lazy, local, round>>

\* unsafe extern "C" fn init(), run once from the CRT initialiser table.
compat_init ==
    /\ phase = "crt"
    /\ MUTEX_KIND' = select_kind(available("TryAcquireSRWLockExclusive"),
                                 available("TryEnterCriticalSection"))
    /\ phase' = "main"
    /\ UNCHANGED rwvars
    /\ UNCHANGED <<missed, wres, AVAILABLE, mutex, cv, rmutex, rused, op, pc, ret, acq, racq,
                   obs, scen, lazy, local, round>>

\* The entries of the CRT initialiser table: the init of each eager probe
\* (compat_fn!, section .CRT$XCU) and the init of the tier selector (section
\* .CRT$XCU_AFTER).  In the scenario "boot", round is the set of the entries
\* that have run, one binary digit each.
InitBit(x) ==
    CASE x = "TryAcquireSRWLockExclusive" -> 1
      [] x = "TryEnterCriticalSection" -> 2
      [] OTHER -> 4
HasRun(x) == (round \div InitBit(x)) % 2 = 1
AllProbed == \A cap \in Caps : HasRun(cap)

\* Probe initialisers that are not ordered before the selector: the selector
\* gets its turn as soon as one probe has run.
compat_fn_init_unordered(cap) ==
    /\ scen = "boot"
    /\ ~HasRun(cap)
    /\ \E found \in BOOLEAN : AVAILABLE' = [AVAILABLE EXCEPT ![cap] = found]
    /\ round' = round + InitBit(cap)
    /\ phase' = IF phase = "xcu" THEN "crt" ELSE phase
    /\ UNCHANGED rwvars
    /\ UNCHANGED <<missed, wres, MUTEX_KIND, mutex, cv, rmutex, rused, op, pc, ret, acq,
                   racq, obs, scen, lazy, local>>
\* compat_fn!: unsafe extern "C" fn init() of one eager probe.  The flag starts
\* false (static mut AVAILABLE: bool = false) and is set when GetProcAddress
\* finds the symbol; found is the answer of the host.  The entries of
\* .CRT$XCU all come before those of .CRT$XCU_AFTER, so the selector has its
\* turn (phase "crt") once the last probe has run.
compat_fn_init(cap) ==
    /\ scen = "boot"
    /\ phase = "xcu"
    /\ ~HasRun(cap)
    /\ \E found \in BOOLEAN : AVAILABLE' = [AVAILABLE EXCEPT ![cap] = found]
    /\ round' = round + InitBit(cap)
    /\ phase' = IF \A c \in Caps \ {cap} : HasRun(c) THEN "crt" ELSE "xcu"
    /\ UNCHANGED rwvars
    /\ UNCHANGED <<missed, wres, MUTEX_KIND, mutex, cv, rmutex, rused, op, pc, ret, acq,
                   racq, obs, scen, lazy, local>>

\* init() called once more after it has run, the probes' answers as they were.
compat_init_again ==
    /\ scen = "boot"
    /\ phase = "main"
    /\ ~HasRun("init")
    /\ MUTEX_KIND' = select_kind(available("TryAcquireSRWLockExclusive"),
                                 available("TryEnterCriticalSection"))
    /\ round' = round + InitBit("init")
    /\ UNCHANGED rwvars
    /\ UNCHANGED <<missed, wres, AVAILABLE, phase, mutex, cv, rmutex, rused, op, pc, ret,
                   acq, racq, obs, scen, lazy, local>>

\* ------------------------------------------------------------ lazy probe
\* compat_fn_lazy!: static PTR: AtomicUsize = AtomicUsize::new(0);
\* static AVAILABLE: AtomicBool = AtomicBool::new(false).  PTR is "zero", the
\* address of the fallback or the address of the entry point; host is what
\* lookup answers on this host, "unasked" until the first lookup.
LazyNew == [PTR |-> "zero", AVAILABLE |-> FALSE, host |-> "unasked"]
\* The locals of one call: value of store_func, addr of option/call; looked:
\* the call has performed a lookup; late: PTR was non-zero when it began.
LocalNew == [value |-> "zero", addr |-> "zero", looked |-> FALSE, late |-> FALSE]

LazyOps == {"available", "option", "call"}

lzvars == <<AVAILABLE, phase, MUTEX_KIND, mutex, cv, rmutex, rused, acq, racq, obs,
            scen, round, wres, missed, rwvars>>

\* Thread t enters available(), option() or call().
CallLazy(t, o) ==
    /\ scen = "lazy"
    /\ pc[t] = "idle"
    /\ op' = [op EXCEPT ![t] = o]
    /\ pc' = [pc EXCEPT ![t] = "l_ptr"]
    /\ ret' = [ret EXCEPT ![t] = "none"]
    /\ local' = [local EXCEPT ![t] = [LocalNew EXCEPT !.late = lazy.PTR # "zero"]]
    /\ UNCHANGED <<lazy, lzvars>>

\* What follows the match on PTR: call() calls through addr, option() and
\* available() load AVAILABLE.
LazyAfterLoad(o) == IF o = "call" THEN "l_invoke" ELSE "l_avail"

\* match PTR.load(Ordering::SeqCst) { 0 => load(), n => n }
Lazy_ptr_load(t) ==
    /\ pc[t] = "l_ptr"
    /\ IF lazy.PTR = "zero"
       THEN /\ pc' = [pc EXCEPT ![t] = "l_lookup"]
            /\ local' = local
       ELSE /\ pc' = [pc EXCEPT ![t] = LazyAfterLoad(op[t])]
            /\ local' = [local EXCEPT ![t].addr = lazy.PTR]
    /\ UNCHANGED <<lazy, op, ret, lzvars>>

\* A store_func that stores PTR before AVAILABLE.
store_func_steps_ptr_first(found) ==
    IF found THEN <<"l_store_ptr", "l_store_avail">> ELSE <<"l_store_ptr">>
\* store_func: the stores that follow the lookup, in program order:
\* Some(value) => available.store(true), then ptr.store(value);
\* None => ptr.store(fallback).
store_func_steps(found) ==
    IF found THEN <<"l_store_avail", "l_store_ptr">> ELSE <<"l_store_ptr">>

\* The position of thread t after its store p: the next store of store_func,
\* or, store_func having returned value, what follows the match on PTR.
LazyAfterStore(t, p) ==
    LET s == store_func_steps(local[t].value = "entry")
        i == CHOOSE j \in 1..Len(s) : s[j] = p
    IN  IF i < Len(s) THEN s[i + 1] ELSE LazyAfterLoad(op[t])

\* store_func: let value = match lookup(..) { Some(value) => .., None =>
\* fallback }.  Racing lookups of one capability give the same answer.
store_func_lookup(t) ==
    /\ pc[t] = "l_lookup"
    /\ \E r \in {"found", "missing"} :
         /\ lazy.host \in {"unasked", r}
         /\ lazy' = [lazy EXCEPT !.host = r]
         /\ local' = [local EXCEPT ![t].value = IF r = "found" THEN "entry" ELSE "fallback",
                                   ![t].looked = TRUE]
         /\ pc' = [pc EXCEPT ![t] = store_func_steps(r = "found")[1]]
    /\ UNCHANGED <<op, ret, lzvars>>

\* available.store(true, Ordering::SeqCst)
store_func_available(t) ==
    /\ pc[t] = "l_store_avail"
    /\ lazy' = [lazy EXCEPT !.AVAILABLE = TRUE]
    /\ local' = [local EXCEPT ![t].addr = local[t].value]
    /\ pc' = [pc EXCEPT ![t] = LazyAfterStore(t, "l_store_avail")]
    /\ UNCHANGED <<op, ret, lzvars>>

\* ptr.store(value, Ordering::SeqCst)
store_func_ptr(t) ==
    /\ pc[t] = "l_store_ptr"
    /\ lazy' = [lazy EXCEPT !.PTR = local[t].value]
    /\ local' = [local EXCEPT ![t].addr = local[t].value]
    /\ pc' = [pc EXCEPT ![t] = LazyAfterStore(t, "l_store_ptr")]
    /\ UNCHANGED <<op, ret, lzvars>>

\* option(): if AVAILABLE.load(..) { Some(transmute(addr)) } else { None }
option_ret(avail, addr) ==
    IF ~avail THEN "None"
    ELSE IF addr = "entry" THEN "Some(entry)" ELSE "Some(fallback)"

\* AVAILABLE.load(Ordering::SeqCst), the last step of available() and option().
Lazy_available_load(t) ==
    /\ pc[t] = "l_avail"
    /\ ret' = [ret EXCEPT ![t] =
                 IF op[t] = "available"
                 THEN (IF lazy.AVAILABLE THEN "true" ELSE "false")
                 ELSE option_ret(lazy.AVAILABLE, local[t].addr)]
    /\ pc' = [pc EXCEPT ![t] = "idle"]
    /\ UNCHANGED <<lazy, local, op, lzvars>>

\* call(): mem::transmute::<usize, F>(addr)(..): the function at addr runs.
Lazy_invoke(t) ==
    /\ pc[t] = "l_invoke"
    /\ ret' = [ret EXCEPT ![t] = local[t].addr]
    /\ pc' = [pc EXCEPT ![t] = "idle"]
    /\ UNCHANGED <<lazy, local, op, lzvars>>

LazyStep(t) ==
    \/ Lazy_ptr_load(t)
    \/ store_func_lookup(t)
    \/ store_func_available(t)
    \/ store_func_ptr(t)
    \/ Lazy_available_load(t)
    \/ Lazy_invoke(t)

\* ------------------------------------------------------------ native backends
\* A native lock object is [obj, owner, count]: obj is the life of the OS
\* object, owner the thread that owns it (NoThread: free), count its
\* ownership count.

\* SrwLockMutex::new(): SRWLOCK_INIT is a valid unlocked lock.
Srw_new == [obj |-> "ready", owner |-> NoThread, count |-> 0]
\* SrwLockMutex::init(): empty.
Srw_init(n) == n
\* AcquireSRWLockExclusive returns once the lock is free; it does not
\* recognise its owner, so a second acquire by the owner never returns.
Srw_can_lock(n, t) == n.owner = NoThread
Srw_lock(n, t) == [n EXCEPT !.owner = t, !.count = 1]
\* TryAcquireSRWLockExclusive(..) != 0
Srw_try_lock(n, t) == n.owner = NoThread
\* ReleaseSRWLockExclusive
Srw_unlock(n, t) == [n EXCEPT !.owner = NoThread, !.count = 0]
\* A destroy that invalidates the SRW lock.
Srw_destroy_closes(n) == [n EXCEPT !.obj = "closed"]
\* SrwLockMutex::destroy(): nothing to destroy.
Srw_destroy(n) == n

\* CriticalSectionMutex::new(): MaybeUninit::uninit().
Cs_new == [obj |-> "uninit", owner |-> NoThread, count |-> 0]
\* InitializeCriticalSection
Cs_init(n) == [n EXCEPT !.obj = "ready", !.owner = NoThread, !.count = 0]

\* EnterCriticalSection returns when the section is free or owned by the caller.
Cs_can_lock(n, t) == n.owner \in {NoThread, t}

Cs_lock(n, t) == [n EXCEPT !.owner = t, !.count = @ + 1]

\* A try-enter that does not look at the owner.
Cs_try_lock_always(n, t) == TRUE
\* TryEnterCriticalSection(..) != 0
Cs_try_lock(n, t) == n.owner \in {NoThread, t}

\* A leave that gives the section up whatever its ownership count.
Cs_unlock_all(n, t) == [n EXCEPT !.owner = NoThread, !.count = 0]
\* LeaveCriticalSection: one level; the section is free when the count is 0.
Cs_unlock(n, t) ==
    IF n.count <= 1
    THEN [n EXCEPT !.owner = NoThread, !.count = 0]
    ELSE [n EXCEPT !.count = @ - 1]
\* DeleteCriticalSection
Cs_destroy(n) == [n EXCEPT !.obj = "deleted"]

\* LegacyMutex::new(): a null handle.
Legacy_new == [obj |-> "null", owner |-> NoThread, count |-> 0]
\* An init that writes the handle field before it looks at the result.
Legacy_init_half(n, created) ==
    [n EXCEPT !.obj = IF created THEN "ready" ELSE "invalid",
              !.owner = NoThread, !.count = 0]
\* LegacyMutex::init(): CreateMutexA(null, FALSE, null); a null result panics
\* before the handle field is written.
Legacy_init(n, created) ==
    IF created THEN [n EXCEPT !.obj = "ready", !.owner = NoThread, !.count = 0]
    ELSE n
\* WaitForSingleObject(handle, INFINITE) == WAIT_OBJECT_0: a mutex object is
\* signalled for a thread when it is free or owned by that thread.
Legacy_can_lock(n, t) == n.owner \in {NoThread, t}
Legacy_lock(n, t) == [n EXCEPT !.owner = t, !.count = @ + 1]
\* LegacyMutex::lock(): what the call does with the result r of
\* WaitForSingleObject(handle, INFINITE): anything but WAIT_OBJECT_0 panics.
Legacy_lock_ret(r) == IF r # "WAIT_OBJECT_0" THEN "panic" ELSE "ok"
\* A try_lock that takes every other result for "not acquired".
Legacy_try_lock_ret_lenient(r) ==
    IF r = "WAIT_OBJECT_0" THEN "true" ELSE "false"
\* LegacyMutex::try_lock(): what the call does with the result r of
\* WaitForSingleObject(handle, 0):
\* WAIT_OBJECT_0 => true, WAIT_TIMEOUT => false, _ => panic!("try lock error").
Legacy_try_lock_ret(r) ==
    CASE r = "WAIT_OBJECT_0" -> "true"
      [] r = "WAIT_TIMEOUT" -> "false"
      [] OTHER -> "panic"
\* WaitForSingleObject(handle, 0) on a mutex object that is free or owned by
\* the caller gives WAIT_OBJECT_0, on one owned by another thread WAIT_TIMEOUT.
Legacy_try_lock(n, t) ==
    Legacy_try_lock_ret(IF n.owner \in {NoThread, t}
                        THEN "WAIT_OBJECT_0" ELSE "WAIT_TIMEOUT") = "true"
\* An unlock that forgets to call ReleaseMutex.
Legacy_unlock_forgotten(n, t) == n
\* ReleaseMutex: one level of ownership.
Legacy_unlock(n, t) ==
    IF n.count <= 1
    THEN [n EXCEPT !.owner = NoThread, !.count = 0]
    ELSE [n EXCEPT !.count = @ - 1]
\* CloseHandle
Legacy_destroy(n) == [n EXCEPT !.obj = "closed"]

\* ------------------------------------------------------------ Mutex dispatch
\* The match MUTEX_KIND { .. } of each Mutex method.

\* Mutex::new()
Mutex_new_inner(kind) ==
    CASE kind = "SrwLock" -> Srw_new
      [] kind = "CriticalSection" -> Cs_new
      [] kind = "Legacy" -> Legacy_new

\* Mutex::init(); created: whether CreateMutexA returned a handle (Legacy only).
Mutex_init_inner(kind, n, created) ==
    CASE kind = "SrwLock" -> Srw_init(n)
      [] kind = "CriticalSection" -> Cs_init(n)
      [] kind = "Legacy" -> Legacy_init(n, created)

\* Whether the native acquire of Mutex::lock() returns.
Mutex_can_lock(kind, n, t) ==
    CASE kind = "SrwLock" -> Srw_can_lock(n, t)
      [] kind = "CriticalSection" -> Cs_can_lock(n, t)
      [] kind = "Legacy" -> Legacy_can_lock(n, t)

\* The native acquire of Mutex::lock() and of a successful Mutex::try_lock().
Mutex_native_lock(kind, n, t) ==
    CASE kind = "SrwLock" -> Srw_lock(n, t)
      [] kind = "CriticalSection" -> Cs_lock(n, t)
      [] kind = "Legacy" -> Legacy_lock(n, t)

\* The result of the native try of Mutex::try_lock().
Mutex_native_try(kind, n, t) ==
    CASE kind = "SrwLock" -> Srw_try_lock(n, t)
      [] kind = "CriticalSection" -> Cs_try_lock(n, t)
      [] kind = "Legacy" -> Legacy_try_lock(n, t)

\* The native release of Mutex::unlock().
Mutex_native_unlock(kind, n, t) ==
    CASE kind = "SrwLock" -> Srw_unlock(n, t)
      [] kind = "CriticalSection" -> Cs_unlock(n, t)
      [] kind = "Legacy" -> Legacy_unlock(n, t)

\* Mutex::destroy()
Mutex_destroy_inner(kind, n) ==
    CASE kind = "SrwLock" -> Srw_destroy(n)
      [] kind = "CriticalSection" -> Cs_destroy(n)
      [] kind = "Legacy" -> Legacy_destroy(n)

\* Mutex::flag_locked(): <<returned value, held afterwards>>.
flag_locked(h) == IF h THEN <<FALSE, h>> ELSE <<TRUE, TRUE>>

\* ------------------------------------------------------------ Mutex life cycle
\* new(), init() and destroy() are called by the owner of the Mutex while no
\* thread is inside a call on it.

Quiet == \A t \in Threads : pc[t] = "idle"

\* Mutex::new()
Mutex_new ==
    /\ phase = "main"
    /\ mutex.life = "none"
    /\ mutex' = [life |-> "new", inner |-> Mutex_new_inner(MUTEX_KIND), held |-> FALSE]
    /\ UNCHANGED rwvars
    /\ UNCHANGED <<missed, wres, AVAILABLE, phase, MUTEX_KIND, cv, rmutex, rused, op, pc, ret,
                   acq, racq, obs, scen, lazy, local, round>>

\* Mutex::init(): the backend creates its OS object; on Legacy a null handle
\* from CreateMutexA panics and leaves the handle as it was.
Mutex_init ==
    /\ mutex.life = "new"
    /\ Quiet
    /\ \E created \in BOOLEAN :
         /\ (MUTEX_KIND # "Legacy") => created
         /\ mutex' = [mutex EXCEPT
                        !.inner = Mutex_init_inner(MUTEX_KIND, @, created),
                        !.life = IF created THEN "init" ELSE "failed"]
    /\ UNCHANGED rwvars
    /\ UNCHANGED <<missed, wres, AVAILABLE, phase, MUTEX_KIND, cv, rmutex, rused, op, pc, ret,
                   acq, racq, obs, scen, lazy, local, round>>

\* The Mutex can be locked: created and, on the tiers that need it, initialised.
MutexUsable ==
    /\ phase = "main"
    /\ mutex.life \in {"new", "init"}
    /\ mutex.inner.obj = "ready"

\* ------------------------------------------------------------ Mutex::lock

\* A wait_timeout that reports a time-out as a wake-up and a wake-up as a
\* time-out.
wait_timeout_ret_swapped(kind, r) ==
    IF kind = "SrwLock"
    THEN IF r = "zero" THEN "true" ELSE "false"
    ELSE CASE r = "WAIT_OBJECT_0" -> "false"
           [] r = "WAIT_TIMEOUT" -> "true"
           [] OTHER -> "panic"

\* Condvar::wait_timeout: what the call returns for the result r of its host
\* wait.  SrwLock arm: if r == 0 { false } else { true }; fallback arm:
\* WAIT_OBJECT_0 => true, WAIT_TIMEOUT => false, _ => panic!.
wait_timeout_ret(kind, r) ==
    IF kind = "SrwLock"
    THEN IF r = "zero" THEN "false" ELSE "true"
    ELSE CASE r = "WAIT_OBJECT_0" -> "true"
           [] r = "WAIT_TIMEOUT" -> "false"
           [] OTHER -> "panic"

\* Condvar::wait, fallback arm: what the call does with the result r of
\* WaitForSingleObject(event, INFINITE): anything but WAIT_OBJECT_0 panics.
wait_ret(r) == IF r # "WAIT_OBJECT_0" THEN "panic" ELSE "ok"

\* lock() is called by the user and, on CriticalSection/Legacy, as the last
\* statement of Condvar::wait and wait_timeout (mutex.lock()).
LockOps == {"lock", "wait_relock", "wait_timeout_relock"}

\* What the caller of a lock() that returned normally hands back: wait_timeout
\* returns the ret it computed before mutex.lock().
LockReturn(o, r) ==
    IF o = "wait_timeout_relock" THEN wait_timeout_ret(MUTEX_KIND, r) ELSE "ok"

\* When a call returns, the record of its host wait is dropped.
WaitEnds(t) ==
    IF pc'[t] = "idle"
    THEN /\ wres' = [wres EXCEPT ![t] = "none"]
         /\ missed' = missed \ {t}
    ELSE UNCHANGED <<wres, missed>>

\* The native acquire of Mutex::lock(): the thread stays here until the
\* primitive lets it in.  On SrwLock this is all of lock().
Mutex_lock_native(t) ==
    /\ pc[t] = "native"
    /\ op[t] \in LockOps
    /\ Mutex_can_lock(MUTEX_KIND, mutex.inner, t)
    /\ mutex' = [mutex EXCEPT !.inner = Mutex_native_lock(MUTEX_KIND, @, t)]
    /\ obs' = [obs EXCEPT ![t] = mutex.inner.owner]
    /\ IF MUTEX_KIND = "SrwLock"
       THEN /\ pc' = [pc EXCEPT ![t] = "idle"]
            /\ ret' = [ret EXCEPT ![t] = LockReturn(op[t], wres[t])]
            /\ acq' = [acq EXCEPT ![t] = @ + 1]
       ELSE /\ pc' = [pc EXCEPT ![t] = "flag"]
            /\ UNCHANGED <<ret, acq>>
    /\ WaitEnds(t)
    /\ UNCHANGED rwvars
    /\ UNCHANGED <<AVAILABLE, phase, MUTEX_KIND, cv, rmutex, rused, op, racq,
                   scen, lazy, local, round>>

\* if !self.flag_locked() { self.unlock(); panic!(..) } of Mutex::lock().
Mutex_lock_flag(t) ==
    /\ pc[t] = "flag"
    /\ op[t] \in LockOps
    /\ LET f == flag_locked(mutex.held) IN
         /\ mutex' = [mutex EXCEPT !.held = f[2]]
         /\ IF f[1]
            THEN /\ pc' = [pc EXCEPT ![t] = "idle"]
                 /\ ret' = [ret EXCEPT ![t] = LockReturn(op[t], wres[t])]
                 /\ acq' = [acq EXCEPT ![t] = @ + 1]
            ELSE /\ pc' = [pc EXCEPT ![t] = "clear"]
                 /\ UNCHANGED <<ret, acq>>
    /\ WaitEnds(t)
    /\ UNCHANGED rwvars
    /\ UNCHANGED <<AVAILABLE, phase, MUTEX_KIND, cv, rmutex, rused, op, racq,
                   obs, scen, lazy, local, round>>

\* ------------------------------------------------------------ Mutex::try_lock

\* The native try of Mutex::try_lock(); it never waits.
Mutex_try_lock_native(t) ==
    /\ pc[t] = "native"
    /\ op[t] = "try_lock"
    /\ obs' = [obs EXCEPT ![t] = mutex.inner.owner]
    /\ IF ~Mutex_native_try(MUTEX_KIND, mutex.inner, t)
       THEN /\ pc' = [pc EXCEPT ![t] = "idle"]
            /\ ret' = [ret EXCEPT ![t] = "false"]
            /\ UNCHANGED <<mutex, acq>>
       ELSE /\ mutex' = [mutex EXCEPT !.inner = Mutex_native_lock(MUTEX_KIND, @, t)]
            /\ IF MUTEX_KIND = "SrwLock"
               THEN /\ pc' = [pc EXCEPT ![t] = "idle"]
                    /\ ret' = [ret EXCEPT ![t] = "true"]
                    /\ acq' = [acq EXCEPT ![t] = @ + 1]
               ELSE /\ pc' = [pc EXCEPT ![t] = "flag"]
                    /\ UNCHANGED <<ret, acq>>
    /\ UNCHANGED rwvars
    /\ UNCHANGED <<missed, wres, AVAILABLE, phase, MUTEX_KIND, cv, rmutex, rused, op, racq,
                   scen, lazy, local, round>>

\* else if self.flag_locked() { true } else { self.unlock(); false }
Mutex_try_lock_flag(t) ==
    /\ pc[t] = "flag"
    /\ op[t] = "try_lock"
    /\ LET f == flag_locked(mutex.held) IN
         /\ mutex' = [mutex EXCEPT !.held = f[2]]
         /\ IF f[1]
            THEN /\ pc' = [pc EXCEPT ![t] = "idle"]
                 /\ ret' = [ret EXCEPT ![t] = "true"]
                 /\ acq' = [acq EXCEPT ![t] = @ + 1]
            ELSE /\ pc' = [pc EXCEPT ![t] = "clear"]
                 /\ UNCHANGED <<ret, acq>>
    /\ UNCHANGED rwvars
    /\ UNCHANGED <<missed, wres, AVAILABLE, phase, MUTEX_KIND, cv, rmutex, rused, op, racq,
                   obs, scen, lazy, local, round>>

\* ------------------------------------------------------------ Mutex::unlock
\* unlock() is called by the user, by the recursion branch of lock() and
\* try_lock() (self.unlock()), and by Condvar::wait (mutex.unlock()); op[t]
\* tells which, and so where the thread goes when unlock() returns.

\* An unlock() that leaves the held flag set.
Mutex_unlock_noclear(t) ==
    /\ pc[t] = "clear"
    /\ pc' = [pc EXCEPT ![t] = "release"]
    /\ UNCHANGED rwvars
    /\ UNCHANGED <<missed, wres, AVAILABLE, phase, MUTEX_KIND, mutex, cv, rmutex, rused, op,
                   ret, acq, racq, obs, scen, lazy, local, round>>

\* *self.held.get() = false; (CriticalSection and Legacy arms)
Mutex_unlock_clear(t) ==
    /\ pc[t] = "clear"
    /\ mutex' = [mutex EXCEPT !.held = FALSE]
    /\ pc' = [pc EXCEPT ![t] = "release"]
    /\ UNCHANGED rwvars
    /\ UNCHANGED <<missed, wres, AVAILABLE, phase, MUTEX_KIND, cv, rmutex, rused, op, ret,
                   acq, racq, obs, scen, lazy, local, round>>

\* The native release of unlock(), and the return to unlock()'s caller.
Mutex_unlock_release(t) ==
    /\ pc[t] = "release"
    /\ mutex' = [mutex EXCEPT !.inner = Mutex_native_unlock(MUTEX_KIND, @, t)]
    /\ CASE op[t] = "unlock" ->
              /\ pc' = [pc EXCEPT ![t] = "idle"]
              /\ ret' = [ret EXCEPT ![t] = "ok"]
              /\ acq' = [acq EXCEPT ![t] = @ - 1]
              /\ UNCHANGED op
         [] op[t] \in {"wait", "wait_timeout"} ->
              /\ pc' = [pc EXCEPT ![t] = "event"]
              /\ acq' = [acq EXCEPT ![t] = @ - 1]
              /\ UNCHANGED <<ret, op>>
         [] op[t] \in LockOps ->
              /\ pc' = [pc EXCEPT ![t] = "idle"]
              /\ ret' = [ret EXCEPT ![t] = "panic"]
              /\ UNCHANGED <<acq, op>>
         [] op[t] = "try_lock" ->
              /\ pc' = [pc EXCEPT ![t] = "idle"]
              /\ ret' = [ret EXCEPT ![t] = "false"]
              /\ UNCHANGED <<acq, op>>
    /\ WaitEnds(t)
    /\ UNCHANGED rwvars
    /\ UNCHANGED <<AVAILABLE, phase, MUTEX_KIND, cv, rmutex, rused, racq, obs,
                   scen, lazy, local, round>>

\* Mutex::destroy(): the caller guarantees that the lock is not in use.
Mutex_destroy ==
    /\ MutexUsable
    /\ Quiet
    /\ mutex.inner.owner = NoThread
    /\ mutex' = [mutex EXCEPT !.inner = Mutex_destroy_inner(MUTEX_KIND, @),
                              !.life = "destroyed"]
    /\ UNCHANGED rwvars
    /\ UNCHANGED <<missed, wres, AVAILABLE, phase, MUTEX_KIND, cv, rmutex, rused, op, pc, ret,
                   acq, racq, obs, scen, lazy, local, round>>

\* One step of a thread inside a Mutex call.
MutexStep(t) ==
    \/ Mutex_lock_native(t)
    \/ Mutex_lock_flag(t)
    \/ Mutex_try_lock_native(t)
    \/ Mutex_try_lock_flag(t)
    \/ Mutex_unlock_clear(t)
    \/ Mutex_unlock_release(t)

\* ------------------------------------------------------------ callers
Returned(t, o) == pc[t] = "idle" /\ op[t] = o
Holding(t) == acq[t] > 0

\* A thread outside any call starts one.  unlock() is only called by a thread
\* that holds the lock (the contract of unlock()); lock() and try_lock() may be
\* called by any thread, the holder included.  MaxDepth bounds the native
\* ownership count.

Begin(t, o, p) ==
    /\ pc[t] = "idle"
    /\ op' = [op EXCEPT ![t] = o]
    /\ pc' = [pc EXCEPT ![t] = p]
    /\ ret' = [ret EXCEPT ![t] = "none"]
    /\ obs' = [obs EXCEPT ![t] = NoThread]

DepthOk(t) == (mutex.inner.owner = t) => (mutex.inner.count < MaxDepth)

\* An unlock that writes the held flag on every tier.
UnlockEntry_clear == "clear"
UnlockEntry == IF MUTEX_KIND = "SrwLock" THEN "release" ELSE "clear"

CallLock(t) ==
    /\ scen = "free"
    /\ MutexUsable
    /\ DepthOk(t)
    /\ Begin(t, "lock", "native")
    /\ UNCHANGED rwvars
    /\ UNCHANGED <<missed, wres, AVAILABLE, phase, MUTEX_KIND, mutex, cv, rmutex, rused, acq,
                   racq, scen, lazy, local, round>>

CallTryLock(t) ==
    /\ scen = "free"
    /\ MutexUsable
    /\ DepthOk(t)
    /\ Begin(t, "try_lock", "native")
    /\ UNCHANGED rwvars
    /\ UNCHANGED <<missed, wres, AVAILABLE, phase, MUTEX_KIND, mutex, cv, rmutex, rused, acq,
                   racq, scen, lazy, local, round>>

CallUnlock(t) ==
    /\ scen = "free"
    /\ MutexUsable
    /\ acq[t] > 0
    /\ Begin(t, "unlock", UnlockEntry)
    /\ UNCHANGED rwvars
    /\ UNCHANGED <<missed, wres, AVAILABLE, phase, MUTEX_KIND, mutex, cv, rmutex, rused, acq,
                   racq, scen, lazy, local, round>>

\* ------------------------------------------------------------ Condvar
\* cv.inner is the usize of Condvar: "zero" after new() (a valid
\* CONDITION_VARIABLE_INIT), the event handle "event" after init() on
\* CriticalSection/Legacy, "closed" once that handle is closed.
\* cv.signalled is the state of the manual-reset event.  The threads
\* suspended on the condition variable are those with pc "asleep"
\* (SleepConditionVariableSRW) or "blocked" (WaitForSingleObject on the event).
\* wres[t] is the dwMilliseconds of the host wait while the thread waits
\* ("INFINITE" or "finite") and the value the host wait returned afterwards.

WaitOps == {"wait", "wait_timeout"}
RelockOps == {"wait_relock", "wait_timeout_relock"}

\* The mutex.lock() that ends the fallback arm of wait / wait_timeout.
Relock(o) == IF o = "wait" THEN "wait_relock" ELSE "wait_timeout_relock"

\* Condvar::new()
Condvar_new ==
    /\ phase = "main"
    /\ cv.life = "none"
    /\ cv' = [life |-> "new", inner |-> "zero", signalled |-> FALSE]
    /\ UNCHANGED rwvars
    /\ UNCHANGED <<missed, wres, AVAILABLE, phase, MUTEX_KIND, mutex, rmutex, rused, op, pc,
                   ret, acq, racq, obs, scen, lazy, local, round>>

\* Condvar::init(): nothing on SrwLock; otherwise CreateEventA(manual reset,
\* initially non-signalled), and a null handle panics before inner is written.
Condvar_init ==
    /\ cv.life = "new"
    /\ Quiet
    /\ \E created \in BOOLEAN :
         /\ (MUTEX_KIND = "SrwLock") => created
         /\ cv' = [life |-> IF created THEN "init" ELSE "failed",
                   inner |-> IF MUTEX_KIND # "SrwLock" /\ created
                             THEN "event" ELSE cv.inner,
                   signalled |-> FALSE]
    /\ UNCHANGED rwvars
    /\ UNCHANGED <<missed, wres, AVAILABLE, phase, MUTEX_KIND, mutex, rmutex, rused, op, pc,
                   ret, acq, racq, obs, scen, lazy, local, round>>

CondvarUsable ==
    /\ phase = "main"
    /\ cv.life \in {"new", "init"}
    /\ (MUTEX_KIND # "SrwLock") => (cv.inner = "event")

\* A wait whose release of the lock and whose sleep are two steps.
Condvar_wait_sleep_split(t) ==
    /\ pc[t] = "sleep"
    /\ op[t] \in WaitOps
    /\ mutex' = [mutex EXCEPT !.inner = Srw_unlock(@, t)]
    /\ pc' = [pc EXCEPT ![t] = "event"]
    /\ acq' = [acq EXCEPT ![t] = @ - 1]
    /\ UNCHANGED rwvars
    /\ UNCHANGED <<missed, wres, AVAILABLE, phase, MUTEX_KIND, cv, rmutex, rused, op, ret,
                   racq, obs, scen, lazy, local, round>>

\* Condvar::wait / wait_timeout, SrwLock arm: SleepConditionVariableSRW
\* releases the lock and puts the thread to sleep in one step of the host.
Condvar_wait_sleep(t) ==
    /\ pc[t] = "sleep"
    /\ op[t] \in WaitOps
    /\ mutex' = [mutex EXCEPT !.inner = Srw_unlock(@, t)]
    /\ pc' = [pc EXCEPT ![t] = "asleep"]
    /\ acq' = [acq EXCEPT ![t] = @ - 1]
    /\ UNCHANGED rwvars
    /\ UNCHANGED <<missed, wres, AVAILABLE, phase, MUTEX_KIND, cv, rmutex, rused, op, ret,
                   racq, obs, scen, lazy, local, round>>

\* SleepConditionVariableSRW after the wake-up or the time-out: it takes the
\* lock again before it returns.  wait() returns; wait_timeout() returns
\* r != 0.
Condvar_wait_reacquire(t) ==
    /\ pc[t] = "reacquire"
    /\ op[t] \in WaitOps
    /\ Srw_can_lock(mutex.inner, t)
    /\ mutex' = [mutex EXCEPT !.inner = Srw_lock(@, t)]
    /\ obs' = [obs EXCEPT ![t] = mutex.inner.owner]
    /\ pc' = [pc EXCEPT ![t] = "idle"]
    /\ ret' = [ret EXCEPT ![t] = IF op[t] = "wait" THEN "ok"
                                 ELSE wait_timeout_ret(MUTEX_KIND, wres[t])]
    /\ acq' = [acq EXCEPT ![t] = @ + 1]
    /\ WaitEnds(t)
    /\ UNCHANGED rwvars
    /\ UNCHANGED <<AVAILABLE, phase, MUTEX_KIND, cv, rmutex, rused, op, racq,
                   scen, lazy, local, round>>

\* Condvar::wait / wait_timeout, CriticalSection/Legacy arm, after
\* mutex.unlock() has returned: WaitForSingleObject(event, ..) returns
\* WAIT_OBJECT_0 at once if the event is signalled and starts to wait if not.
Condvar_wait_event(t) ==
    /\ pc[t] = "event"
    /\ op[t] \in WaitOps
    /\ IF cv.signalled
       THEN /\ pc' = [pc EXCEPT ![t] = "native"]
            /\ op' = [op EXCEPT ![t] = Relock(@)]
            /\ wres' = [wres EXCEPT ![t] = "WAIT_OBJECT_0"]
       ELSE /\ pc' = [pc EXCEPT ![t] = "blocked"]
            /\ UNCHANGED <<op, wres>>
    /\ UNCHANGED rwvars
    /\ UNCHANGED <<missed, AVAILABLE, phase, MUTEX_KIND, mutex, cv, rmutex, rused,
                   ret, acq, racq, obs, scen, lazy, local, round>>

\* The time-out of a host wait with a finite dwMilliseconds expires while the
\* thread is suspended: SleepConditionVariableSRW will return 0
\* (ERROR_TIMEOUT) once it has the lock again, WaitForSingleObject returns
\* WAIT_TIMEOUT.
Condvar_timeout(t) ==
    /\ pc[t] \in {"asleep", "blocked"}
    /\ op[t] = "wait_timeout"
    /\ wres[t] = "finite"
    /\ IF pc[t] = "asleep"
       THEN /\ pc' = [pc EXCEPT ![t] = "reacquire"]
            /\ wres' = [wres EXCEPT ![t] = "zero"]
            /\ op' = op
       ELSE /\ pc' = [pc EXCEPT ![t] = "native"]
            /\ wres' = [wres EXCEPT ![t] = "WAIT_TIMEOUT"]
            /\ op' = [op EXCEPT ![t] = Relock(@)]
    /\ UNCHANGED rwvars
    /\ UNCHANGED <<missed, AVAILABLE, phase, MUTEX_KIND, mutex, cv, rmutex, rused,
                   ret, acq, racq, obs, scen, lazy, local, round>>

\* The threads suspended in SleepConditionVariableSRW / on the event.
Asleep == {u \in Threads : pc[u] = "asleep"}
Blocked == {u \in Threads : pc[u] = "blocked"}

\* The threads that have left mutex.unlock() inside wait / wait_timeout and
\* have not yet called WaitForSingleObject.
InWindow == {u \in Threads : pc[u] = "event" /\ op[u] \in WaitOps}

\* A wake call that releases every sleeping thread.
WakeConditionVariable_every == {Asleep}

\* WakeConditionVariable: the sets of sleeping threads the call may wake, one
\* thread if any sleeps.
WakeConditionVariable_sets ==
    IF Asleep = {} THEN {{}} ELSE {{u} : u \in Asleep}

\* A wake-all call that releases one sleeping thread only.
WakeAllConditionVariable_single ==
    IF Asleep = {} THEN {{}} ELSE {{u} : u \in Asleep}

\* WakeAllConditionVariable: every sleeping thread.
WakeAllConditionVariable_sets == {Asleep}

\* The threads in W leave SleepConditionVariableSRW with a non-zero result.
WakeSrw(W) ==
    /\ pc' = [u \in Threads |-> IF u \in W THEN "reacquire" ELSE pc[u]]
    /\ wres' = [u \in Threads |-> IF u \in W THEN "nonzero" ELSE wres[u]]
    /\ UNCHANGED <<op, cv>>

\* An event call that leaves the event signalled (SetEvent).
SetEvent_signalled == TRUE

\* PulseEvent on the manual-reset event: every thread waiting on it now is
\* released (its wait returns WAIT_OBJECT_0 and it goes on to mutex.lock()),
\* and the event is non-signalled again.
PulseEvent_signalled == FALSE
\* A pulse that releases no thread.
PulseEvent_pc_none == pc
PulseEvent_pc == [u \in Threads |-> IF pc[u] = "blocked" THEN "native" ELSE pc[u]]
PulseEvent_op == [u \in Threads |-> IF pc[u] = "blocked" THEN Relock(op[u]) ELSE op[u]]
PulseEvent_wres == [u \in Threads |-> IF pc[u] = "blocked" THEN "WAIT_OBJECT_0" ELSE wres[u]]

PulseEvent ==
    /\ pc' = PulseEvent_pc
    /\ op' = PulseEvent_op
    /\ wres' = PulseEvent_wres
    /\ cv' = [cv EXCEPT !.signalled = PulseEvent_signalled]

\* The record of the notifications made by thread t: the threads that were in
\* the window when t notified while holding the lock are added, and NoThread
\* is in the set exactly when the last notification found no thread suspended.
NoteMissed(t) ==
    missed' = ((IF acq[t] > 0 THEN missed \cup InWindow ELSE missed) \ {NoThread})
              \cup (IF Asleep \cup Blocked = {} THEN {NoThread} ELSE {})

\* Condvar::notify_one(): WakeConditionVariable wakes one sleeping thread if
\* there is one; the fallback arm pulses the event.
Condvar_notify_one(t) ==
    /\ scen \in {"free", "correct"}
    /\ CondvarUsable
    /\ pc[t] = "idle"
    /\ IF MUTEX_KIND = "SrwLock"
       THEN \E W \in WakeConditionVariable_sets : WakeSrw(W)
       ELSE PulseEvent
    /\ NoteMissed(t)
    /\ UNCHANGED rwvars
    /\ UNCHANGED <<AVAILABLE, phase, MUTEX_KIND, mutex, rmutex, rused, ret,
                   acq, racq, obs, scen, lazy, local, round>>

\* Condvar::notify_all(): WakeAllConditionVariable, or the same pulse.
Condvar_notify_all(t) ==
    /\ scen \in {"free", "correct"}
    /\ CondvarUsable
    /\ pc[t] = "idle"
    /\ IF MUTEX_KIND = "SrwLock"
       THEN \E W \in WakeAllConditionVariable_sets : WakeSrw(W)
       ELSE PulseEvent
    /\ NoteMissed(t)
    /\ UNCHANGED rwvars
    /\ UNCHANGED <<AVAILABLE, phase, MUTEX_KIND, mutex, rmutex, rused, ret,
                   acq, racq, obs, scen, lazy, local, round>>

\* A destroy that leaves the event handle open.
Condvar_destroy_leak ==
    /\ CondvarUsable
    /\ Quiet
    /\ cv' = [cv EXCEPT !.life = "destroyed"]
    /\ UNCHANGED rwvars
    /\ UNCHANGED <<missed, wres, AVAILABLE, phase, MUTEX_KIND, mutex, rmutex, rused, op, pc,
                   ret, acq, racq, obs, scen, lazy, local, round>>

\* Condvar::destroy(): CloseHandle on the event; nothing on SrwLock.
Condvar_destroy ==
    /\ CondvarUsable
    /\ Quiet
    /\ cv' = [cv EXCEPT !.life = "destroyed",
                        !.inner = IF MUTEX_KIND = "SrwLock" THEN @ ELSE "closed"]
    /\ UNCHANGED rwvars
    /\ UNCHANGED <<missed, wres, AVAILABLE, phase, MUTEX_KIND, mutex, rmutex, rused, op, pc,
                   ret, acq, racq, obs, scen, lazy, local, round>>

CondvarStep(t) ==
    \/ Condvar_wait_sleep(t)
    \/ Condvar_wait_reacquire(t)
    \/ Condvar_wait_event(t)

\* wait(mutex) and wait_timeout(mutex, dur) are called by a thread that holds
\* mutex.  wait() waits with INFINITE; dur2timeout(dur) is a finite number of
\* milliseconds or, for a duration too long for a DWORD, INFINITE.
WaitEntry == IF MUTEX_KIND = "SrwLock" THEN "sleep" ELSE "clear"

CallWait(t) ==
    /\ scen = "free"
    /\ MutexUsable
    /\ CondvarUsable
    /\ acq[t] > 0
    /\ Begin(t, "wait", WaitEntry)
    /\ wres' = [wres EXCEPT ![t] = "INFINITE"]
    /\ missed' = missed
    /\ UNCHANGED rwvars
    /\ UNCHANGED <<AVAILABLE, phase, MUTEX_KIND, mutex, cv, rmutex, rused, acq,
                   racq, scen, lazy, local, round>>

CallWaitTimeout(t) ==
    /\ scen = "free"
    /\ MutexUsable
    /\ CondvarUsable
    /\ acq[t] > 0
    /\ Begin(t, "wait_timeout", WaitEntry)
    /\ \E ms \in {"finite", "INFINITE"} : wres' = [wres EXCEPT ![t] = ms]
    /\ missed' = missed
    /\ UNCHANGED rwvars
    /\ UNCHANGED <<AVAILABLE, phase, MUTEX_KIND, mutex, cv, rmutex, rused, acq,
                   racq, scen, lazy, local, round>>

\* ------------------------------------------------------------ atomic_boxed_init
\* The lazily installed fallback lock of MovableRWLock (rwlock.rs) and the
\* install protocol atomic_boxed_init (mutex/compat.rs).
\*
\* rwlock.lock is the AtomicUsize read and written on the fallback path: Null
\* or the address of a boxed Mutex.  A box is named by the thread that
\* allocated it (a thread allocates at most once per instance: it allocates
\* only after it has read Null, and the word never returns to Null).  On the
\* Modern tier the same word is the SRWLOCK; its state is kept as
\* rwlock.writer (the exclusive owner) and rwlock.readers (shared holds per
\* thread).
\* heap[p] is the box p: life "none" (never allocated), "boxed", "freed", or
\* "double_free"; inner and held are the fields of the boxed Mutex.
\* re[t].re is the local re of atomic_boxed_init, re[t].n the value the
\* compare-exchange found, re[t].ptr what remutex() returned to thread t.

Null == 0

\* The locals of a thread outside any call.
NoLocals == [re |-> Null, n |-> Null, ptr |-> Null]

\* The variables no MovableRWLock step touches.
mcvars == <<AVAILABLE, phase, MUTEX_KIND, mutex, cv, rmutex, rused, acq, racq,
            obs, scen, lazy, local, round, wres, missed, slock>>

ReadOps == {"read", "try_read"}
WriteOps == {"write", "try_write"}
RWUnlockOps == {"read_unlock", "write_unlock"}
RWOps == ReadOps \cup WriteOps \cup RWUnlockOps

InitRW ==
    /\ rwlock = [life |-> "none", lock |-> Null, writer |-> NoThread,
                 readers |-> [t \in Threads |-> 0]]
    /\ heap = [p \in Threads |-> [life |-> "none", inner |-> Cs_new, held |-> FALSE]]
    /\ re = [t \in Threads |-> NoLocals]
    /\ rwacq = [t \in Threads |-> [r |-> 0, w |-> 0]]
    /\ remret = {}

\* MovableRWLock::new()
RW_new ==
    /\ phase = "main"
    /\ rwlock.life = "none"
    /\ rwlock' = [rwlock EXCEPT !.life = "new", !.lock = Null]
    /\ UNCHANGED <<heap, re, rwacq, remret, op, pc, ret>>
    /\ UNCHANGED mcvars

\* The locals of thread t are dead once its call has returned.
RWReturns(t) ==
    re' = IF pc'[t] = "idle" THEN [re EXCEPT ![t] = NoLocals] ELSE re

\* Where a fallback-path operation goes on once remutex() has returned.
AfterRemutex(o) == IF o \in RWUnlockOps THEN "rw_clear" ELSE "rw_native"

\* remutex() returns pointer p to thread t.
RemutexReturn(t, p) ==
    /\ re' = [re EXCEPT ![t].ptr = p]
    /\ remret' = remret \cup {p}
    /\ pc' = [pc EXCEPT ![t] = AfterRemutex(op[t])]

\* A load that goes on to allocate whatever it read.
atomic_boxed_init_load_blind(t) ==
    /\ pc[t] = "rw_load"
    /\ pc' = [pc EXCEPT ![t] = "rw_alloc"]
    /\ UNCHANGED <<re, remret, rwlock, heap, rwacq, op, ret>>
    /\ UNCHANGED mcvars

\* match storage.load(SeqCst) { 0 => {} n => return n as *mut _ }
atomic_boxed_init_load(t) ==
    /\ pc[t] = "rw_load"
    /\ IF rwlock.lock # Null
       THEN RemutexReturn(t, rwlock.lock)
       ELSE /\ pc' = [pc EXCEPT ![t] = "rw_alloc"]
            /\ UNCHANGED <<re, remret>>
    /\ UNCHANGED <<rwlock, heap, rwacq, op, ret>>
    /\ UNCHANGED mcvars

\* let re = unsafe { init() }; let re = Box::into_raw(re);
\* with init() of MovableRWLock::remutex: box Mutex::new(), then re.init().
\* On the Legacy tier re.init() panics when CreateMutexA fails (created is
\* the host's answer): the box is dropped with its handle still null, the
\* call unwinds and the word stays 0.
atomic_boxed_init_alloc(t) ==
    /\ pc[t] = "rw_alloc"
    /\ \E created \in BOOLEAN :
         /\ (MUTEX_KIND # "Legacy") => created
         /\ heap' = [heap EXCEPT ![t] =
                       [life |-> IF created THEN "boxed" ELSE "freed",
                        inner |-> Mutex_init_inner(MUTEX_KIND, Mutex_new_inner(MUTEX_KIND),
                                                   created),
                        held |-> FALSE]]
         /\ IF created
            THEN /\ re' = [re EXCEPT ![t].re = t]
                 /\ pc' = [pc EXCEPT ![t] = "rw_cas"]
                 /\ ret' = ret
            ELSE /\ pc' = [pc EXCEPT ![t] = "idle"]
                 /\ ret' = [ret EXCEPT ![t] = "panic"]
                 /\ RWReturns(t)
    /\ UNCHANGED <<rwlock, rwacq, remret, op>>
    /\ UNCHANGED mcvars

\* An install that stores its pointer without comparing.
atomic_boxed_init_store(t) ==
    /\ pc[t] = "rw_cas"
    /\ rwlock' = [rwlock EXCEPT !.lock = re[t].re]
    /\ RemutexReturn(t, re[t].re)
    /\ UNCHANGED <<heap, rwacq, op, ret>>
    /\ UNCHANGED mcvars

\* match storage.compare_exchange(0, re as usize, SeqCst, SeqCst)
\*   Ok(_) => re,  Err(n) => { destroy(..); n }
atomic_boxed_init_cas(t) ==
    /\ pc[t] = "rw_cas"
    /\ IF rwlock.lock = Null
       THEN /\ rwlock' = [rwlock EXCEPT !.lock = re[t].re]
            /\ RemutexReturn(t, re[t].re)
       ELSE /\ re' = [re EXCEPT ![t].n = rwlock.lock]
            /\ pc' = [pc EXCEPT ![t] = "rw_free"]
            /\ UNCHANGED <<rwlock, remret>>
    /\ UNCHANGED <<heap, rwacq, op, ret>>
    /\ UNCHANGED mcvars

\* Dropping the box p: destroy(&Mutex) and the deallocation.
FreeBox(p) ==
    [heap EXCEPT ![p] = [life |-> IF @.life = "boxed" THEN "freed" ELSE "double_free",
                         inner |-> Mutex_destroy_inner(MUTEX_KIND, @.inner),
                         held |-> @.held]]

\* A loser that frees the box it found installed.
atomic_boxed_init_free_installed(t) ==
    /\ pc[t] = "rw_free"
    /\ heap' = FreeBox(re[t].n)
    /\ RemutexReturn(t, re[t].n)
    /\ UNCHANGED <<rwlock, rwacq, op, ret>>
    /\ UNCHANGED mcvars

\* Err(n) => { unsafe { destroy(Box::from_raw(re).as_ref()) }; n as *mut _ }
atomic_boxed_init_free(t) ==
    /\ pc[t] = "rw_free"
    /\ heap' = FreeBox(re[t].re)
    /\ RemutexReturn(t, re[t].n)
    /\ UNCHANGED <<rwlock, rwacq, op, ret>>
    /\ UNCHANGED mcvars

\* ------------------------------------------------------------ MovableRWLock
\* Fallback arms (CriticalSection | Legacy): every method is
\* (*self.remutex()).lock() / try_lock() / unlock() on the installed boxed
\* Mutex; the steps below are those of Mutex::lock, try_lock and unlock on
\* heap[re[t].ptr].

\* Mutex::lock on the boxed Mutex: the native acquire (read(), write()).
RW_lock_native(t) ==
    /\ pc[t] = "rw_native"
    /\ op[t] \in {"read", "write"}
    /\ Mutex_can_lock(MUTEX_KIND, heap[re[t].ptr].inner, t)
    /\ heap' = [heap EXCEPT ![re[t].ptr].inner = Mutex_native_lock(MUTEX_KIND, @, t)]
    /\ pc' = [pc EXCEPT ![t] = "rw_flag"]
    /\ UNCHANGED <<rwlock, re, rwacq, remret, op, ret>>
    /\ UNCHANGED mcvars

\* Mutex::try_lock on the boxed Mutex: the native try (try_read(), try_write()).
RW_try_lock_native(t) ==
    /\ pc[t] = "rw_native"
    /\ op[t] \in {"try_read", "try_write"}
    /\ IF ~Mutex_native_try(MUTEX_KIND, heap[re[t].ptr].inner, t)
       THEN /\ pc' = [pc EXCEPT ![t] = "idle"]
            /\ ret' = [ret EXCEPT ![t] = "false"]
            /\ heap' = heap
       ELSE /\ heap' = [heap EXCEPT ![re[t].ptr].inner =
                                       Mutex_native_lock(MUTEX_KIND, @, t)]
            /\ pc' = [pc EXCEPT ![t] = "rw_flag"]
            /\ ret' = ret
    /\ RWReturns(t)
    /\ UNCHANGED <<rwlock, rwacq, remret, op>>
    /\ UNCHANGED mcvars

\* One more acquisition of thread t in the mode of operation o.
Acquired(a, o) ==
    IF o \in ReadOps THEN [a EXCEPT !.r = @ + 1] ELSE [a EXCEPT !.w = @ + 1]

\* One acquisition less of thread t, by read_unlock() or write_unlock().
Released(a, o) ==
    IF o = "read_unlock" THEN [a EXCEPT !.r = @ - 1] ELSE [a EXCEPT !.w = @ - 1]

\* The flag_locked() check of Mutex::lock / try_lock on the boxed Mutex.
RW_flag(t) ==
    /\ pc[t] = "rw_flag"
    /\ LET f == flag_locked(heap[re[t].ptr].held) IN
         /\ heap' = [heap EXCEPT ![re[t].ptr].held = f[2]]
         /\ IF f[1]
            THEN /\ pc' = [pc EXCEPT ![t] = "idle"]
                 /\ ret' = [ret EXCEPT ![t] = IF op[t] \in {"read", "write"}
                                              THEN "ok" ELSE "true"]
                 /\ rwacq' = [rwacq EXCEPT ![t] = Acquired(@, op[t])]
            ELSE /\ pc' = [pc EXCEPT ![t] = "rw_clear"]
                 /\ UNCHANGED <<ret, rwacq>>
    /\ RWReturns(t)
    /\ UNCHANGED <<rwlock, remret, op>>
    /\ UNCHANGED mcvars

\* An unlock that leaves the held flag of the boxed Mutex set.
RW_unlock_noclear(t) ==
    /\ pc[t] = "rw_clear"
    /\ pc' = [pc EXCEPT ![t] = "rw_release"]
    /\ UNCHANGED <<heap, rwlock, re, rwacq, remret, op, ret>>
    /\ UNCHANGED mcvars

\* Mutex::unlock on the boxed Mutex: *self.held.get() = false;
RW_unlock_clear(t) ==
    /\ pc[t] = "rw_clear"
    /\ heap' = [heap EXCEPT ![re[t].ptr].held = FALSE]
    /\ pc' = [pc EXCEPT ![t] = "rw_release"]
    /\ UNCHANGED <<rwlock, re, rwacq, remret, op, ret>>
    /\ UNCHANGED mcvars

\* Mutex::unlock on the boxed Mutex: the native release, and the return to
\* the caller of unlock(): read_unlock()/write_unlock(), or the recursion
\* branch of lock() (panic) or of try_lock() (false).
RW_unlock_release(t) ==
    /\ pc[t] = "rw_release"
    /\ heap' = [heap EXCEPT ![re[t].ptr].inner = Mutex_native_unlock(MUTEX_KIND, @, t)]
    /\ pc' = [pc EXCEPT ![t] = "idle"]
    /\ ret' = [ret EXCEPT ![t] = CASE op[t] \in RWUnlockOps -> "ok"
                                   [] op[t] \in {"read", "write"} -> "panic"
                                   [] OTHER -> "false"]
    /\ rwacq' = IF op[t] \in RWUnlockOps
                THEN [rwacq EXCEPT ![t] = Released(@, op[t])]
                ELSE rwacq
    /\ RWReturns(t)
    /\ UNCHANGED <<rwlock, remret, op>>
    /\ UNCHANGED mcvars

\* SrwLock arms: the word is an SRWLOCK.

\* Whether an SRW acquisition in the mode of operation o is granted to t:
\* shared while no thread owns the lock exclusively, exclusive while no
\* thread holds it at all.
SrwGranted(o) ==
    IF o \in ReadOps
    THEN rwlock.writer = NoThread
    ELSE rwlock.writer = NoThread /\ \A u \in Threads : rwlock.readers[u] = 0

\* The SRWLOCK after thread t acquired it in the mode of operation o.
SrwAcquire(w, o, t) ==
    IF o \in ReadOps
    THEN [w EXCEPT !.readers[t] = @ + 1]
    ELSE [w EXCEPT !.writer = t]

\* A shared release that gives up exclusive ownership.
SrwRelease_exclusive(w, o, t) == [w EXCEPT !.writer = NoThread]

\* ReleaseSRWLockShared (read_unlock) / ReleaseSRWLockExclusive (write_unlock).
SrwRelease(w, o, t) ==
    IF o = "read_unlock"
    THEN [w EXCEPT !.readers[t] = @ - 1]
    ELSE [w EXCEPT !.writer = NoThread]

\* AcquireSRWLockShared / AcquireSRWLockExclusive: returns once granted.
RW_srw_lock(t) ==
    /\ pc[t] = "rw_srw"
    /\ op[t] \in {"read", "write"}
    /\ SrwGranted(op[t])
    /\ rwlock' = SrwAcquire(rwlock, op[t], t)
    /\ pc' = [pc EXCEPT ![t] = "idle"]
    /\ ret' = [ret EXCEPT ![t] = "ok"]
    /\ rwacq' = [rwacq EXCEPT ![t] = Acquired(@, op[t])]
    /\ UNCHANGED <<heap, re, remret, op>>
    /\ UNCHANGED mcvars

\* TryAcquireSRWLockShared(..) != 0 / TryAcquireSRWLockExclusive(..) != 0
RW_srw_try_lock(t) ==
    /\ pc[t] = "rw_srw"
    /\ op[t] \in {"try_read", "try_write"}
    /\ pc' = [pc EXCEPT ![t] = "idle"]
    /\ IF SrwGranted(op[t])
       THEN /\ rwlock' = SrwAcquire(rwlock, op[t], t)
            /\ ret' = [ret EXCEPT ![t] = "true"]
            /\ rwacq' = [rwacq EXCEPT ![t] = Acquired(@, op[t])]
       ELSE /\ ret' = [ret EXCEPT ![t] = "false"]
            /\ UNCHANGED <<rwlock, rwacq>>
    /\ UNCHANGED <<heap, re, remret, op>>
    /\ UNCHANGED mcvars

\* read_unlock() / write_unlock(), SrwLock arm.
RW_srw_unlock(t) ==
    /\ pc[t] = "rw_srw"
    /\ op[t] \in RWUnlockOps
    /\ rwlock' = SrwRelease(rwlock, op[t], t)
    /\ pc' = [pc EXCEPT ![t] = "idle"]
    /\ ret' = [ret EXCEPT ![t] = "ok"]
    /\ rwacq' = [rwacq EXCEPT ![t] = Released(@, op[t])]
    /\ UNCHANGED <<heap, re, remret, op>>
    /\ UNCHANGED mcvars

\* A destroy that never touches the heap.
RW_destroy_noop ==
    /\ rwlock.life = "new"
    /\ Quiet
    /\ \A t \in Threads : rwacq[t].r = 0 /\ rwacq[t].w = 0
    /\ rwlock' = [rwlock EXCEPT !.life = "destroyed"]
    /\ UNCHANGED <<heap, re, rwacq, remret, op, pc, ret>>
    /\ UNCHANGED mcvars

\* MovableRWLock::destroy(): nothing on SrwLock; on the fallback path the
\* installed box, if any, is destroyed and freed.  The caller guarantees that
\* the lock is not in use.
RW_destroy ==
    /\ rwlock.life = "new"
    /\ Quiet
    /\ \A t \in Threads : rwacq[t].r = 0 /\ rwacq[t].w = 0
    /\ rwlock' = [rwlock EXCEPT !.life = "destroyed"]
    /\ heap' = IF MUTEX_KIND = "SrwLock" \/ rwlock.lock = Null
               THEN heap ELSE FreeBox(rwlock.lock)
    /\ UNCHANGED <<re, rwacq, remret, op, pc, ret>>
    /\ UNCHANGED mcvars

\* One step of a thread inside remutex().
RemutexStep(t) ==
    \/ atomic_boxed_init_load(t)
    \/ atomic_boxed_init_alloc(t)
    \/ atomic_boxed_init_cas(t)
    \/ atomic_boxed_init_free(t)

\* One step of a thread inside a MovableRWLock call.
RWStep(t) ==
    \/ RemutexStep(t)
    \/ RW_lock_native(t)
    \/ RW_try_lock_native(t)
    \/ RW_flag(t)
    \/ RW_unlock_clear(t)
    \/ RW_unlock_release(t)
    \/ RW_srw_lock(t)
    \/ RW_srw_try_lock(t)
    \/ RW_srw_unlock(t)

\* A thread outside any call starts a MovableRWLock call.  read_unlock() and
\* write_unlock() are called by a thread that holds the lock in that mode.
RWEntry == IF MUTEX_KIND = "SrwLock" THEN "rw_srw" ELSE "rw_load"

\* MaxDepth bounds the holds of one thread.
RWDepthOk(t) ==
    /\ rwlock.readers[t] < MaxDepth
    /\ rwacq[t].r + rwacq[t].w < MaxDepth

RWUsable == phase = "main" /\ rwlock.life = "new"

\* Thread t enters operation o of the MovableRWLock.
RWBegin(t, o) ==
    /\ RWUsable
    /\ o \in RWOps
    /\ o \in ReadOps \cup WriteOps => RWDepthOk(t)
    /\ o = "read_unlock" => rwacq[t].r > 0
    /\ o = "write_unlock" => rwacq[t].w > 0
    /\ pc[t] = "idle"
    /\ op' = [op EXCEPT ![t] = o]
    /\ pc' = [pc EXCEPT ![t] = RWEntry]
    /\ ret' = [ret EXCEPT ![t] = "none"]
    /\ UNCHANGED rwvars

CallRW(t, o) ==
    /\ scen \in {"free", "rw"}
    /\ RWBegin(t, o)
    /\ UNCHANGED mcvars

InstallOps == {"try_read", "try_write", "read_unlock", "write_unlock"}

\* "install": all threads use one fresh MovableRWLock, in any interleaving,
\* MaxCalls calls in all.
InstallCall(t, o) ==
    /\ scen = "install"
    /\ round < MaxCalls
    /\ o \in InstallOps
    /\ RWBegin(t, o)
    /\ round' = round + 1
    /\ UNCHANGED <<AVAILABLE, phase, MUTEX_KIND, mutex, cv, rmutex, rused, acq,
                   racq, obs, scen, lazy, local, wres, missed, slock>>

\* ------------------------------------------------------------ static RWLock
\* pub struct RWLock { lock: AtomicUsize, held: UnsafeCell<bool> }.  On
\* SrwLock the word is an SRWLOCK, always taken exclusively (writer is its
\* owner); on CriticalSection and Legacy the word holds the pointer of a
\* lazily installed boxed CriticalSectionMutex and held is the recursion flag.
\* The boxes live in heap, by the thread that allocated them; their held
\* field is not used.

\* RWLock::new()
RWLock_new == [lock |-> Null, held |-> FALSE, writer |-> NoThread]

\* read() and write() are self.lock(); read_unlock() and write_unlock() are
\* self.unlock().
RWLockOps == {"read", "write", "lock"}
RWLockUnlockOps == {"read_unlock", "write_unlock", "unlock"}

\* The variables no step of the static RWLock touches.
srvars == <<AVAILABLE, phase, MUTEX_KIND, mutex, cv, rmutex, rused, acq, racq,
            obs, scen, lazy, local, wres, missed, rwlock>>

\* remutex() returns pointer p to thread t: lock() goes on to (*re).lock(),
\* unlock() to (*self.remutex()).unlock().
RWLock_remutex_return(t, p) ==
    /\ re' = [re EXCEPT ![t].ptr = p]
    /\ remret' = remret \cup {p}
    /\ pc' = [pc EXCEPT ![t] = IF op[t] \in RWLockUnlockOps
                                THEN "s_release" ELSE "s_native"]

\* atomic_boxed_init(&self.lock, ..): storage.load(SeqCst)
RWLock_remutex_load(t) ==
    /\ pc[t] = "s_load"
    /\ IF slock.lock # Null
       THEN RWLock_remutex_return(t, slock.lock)
       ELSE /\ pc' = [pc EXCEPT ![t] = "s_alloc"]
            /\ UNCHANGED <<re, remret>>
    /\ UNCHANGED <<slock, heap, rwacq, op, ret, round>>
    /\ UNCHANGED srvars

\* init() of RWLock::remutex: box CriticalSectionMutex::new(), re.init();
\* then Box::into_raw.
RWLock_remutex_alloc(t) ==
    /\ pc[t] = "s_alloc"
    /\ heap' = [heap EXCEPT ![t] =
                  [life |-> "boxed", inner |-> Cs_init(Cs_new), held |-> FALSE]]
    /\ re' = [re EXCEPT ![t].re = t]
    /\ pc' = [pc EXCEPT ![t] = "s_cas"]
    /\ UNCHANGED <<slock, rwacq, remret, op, ret, round>>
    /\ UNCHANGED srvars

\* An install that stores its pointer without comparing.
RWLock_remutex_store(t) ==
    /\ pc[t] = "s_cas"
    /\ slock' = [slock EXCEPT !.lock = re[t].re]
    /\ RWLock_remutex_return(t, re[t].re)
    /\ UNCHANGED <<heap, rwacq, op, ret, round>>
    /\ UNCHANGED srvars

\* storage.compare_exchange(0, re as usize, SeqCst, SeqCst)
RWLock_remutex_cas(t) ==
    /\ pc[t] = "s_cas"
    /\ IF slock.lock = Null
       THEN /\ slock' = [slock EXCEPT !.lock = re[t].re]
            /\ RWLock_remutex_return(t, re[t].re)
       ELSE /\ re' = [re EXCEPT ![t].n = slock.lock]
            /\ pc' = [pc EXCEPT ![t] = "s_free"]
            /\ UNCHANGED <<slock, remret>>
    /\ UNCHANGED <<heap, rwacq, op, ret, round>>
    /\ UNCHANGED srvars

\* Err(n): destroy() of RWLock::remutex (CriticalSectionMutex::destroy) on the
\* loser's own box, and its deallocation.
RWLock_remutex_free(t) ==
    /\ pc[t] = "s_free"
    /\ heap' = [heap EXCEPT ![re[t].re] =
                  [life |-> IF @.life = "boxed" THEN "freed" ELSE "double_free",
                   inner |-> Cs_destroy(@.inner),
                   held |-> @.held]]
    /\ RWLock_remutex_return(t, re[t].n)
    /\ UNCHANGED <<slock, rwacq, op, ret, round>>
    /\ UNCHANGED srvars

\* (*re).lock(): EnterCriticalSection on the installed box.
RWLock_lock_native(t) ==
    /\ pc[t] = "s_native"
    /\ Cs_can_lock(heap[re[t].ptr].inner, t)
    /\ heap' = [heap EXCEPT ![re[t].ptr].inner = Cs_lock(@, t)]
    /\ pc' = [pc EXCEPT ![t] = "s_flag"]
    /\ UNCHANGED <<slock, re, rwacq, remret, op, ret, round>>
    /\ UNCHANGED srvars

\* if !self.flag_locked() { .. }: RWLock::flag_locked on the held flag of the
\* RWLock itself.
RWLock_flag_locked(t) ==
    /\ pc[t] = "s_flag"
    /\ LET f == flag_locked(slock.held) IN
         /\ slock' = [slock EXCEPT !.held = f[2]]
         /\ IF f[1]
            THEN /\ pc' = [pc EXCEPT ![t] = "idle"]
                 /\ ret' = [ret EXCEPT ![t] = "ok"]
                 /\ rwacq' = [rwacq EXCEPT ![t] = Acquired(@, op[t])]
            ELSE /\ pc' = [pc EXCEPT ![t] = "s_back"]
                 /\ UNCHANGED <<ret, rwacq>>
    /\ RWReturns(t)
    /\ UNCHANGED <<heap, remret, op, round>>
    /\ UNCHANGED srvars

\* A recursion branch that gives the lock up as unlock() does: held = false,
\* then the leave.
RWLock_lock_back_clear(t) ==
    /\ pc[t] = "s_back"
    /\ slock' = [slock EXCEPT !.held = FALSE]
    /\ heap' = [heap EXCEPT ![re[t].ptr].inner = Cs_unlock(@, t)]
    /\ pc' = [pc EXCEPT ![t] = "idle"]
    /\ ret' = [ret EXCEPT ![t] = "panic"]
    /\ RWReturns(t)
    /\ UNCHANGED <<rwacq, remret, op, round>>
    /\ UNCHANGED srvars

\* The recursion branch: (*re).unlock(); panic!("cannot recursively lock a
\* mutex").  Only the critical section is left, once; held is not written.
RWLock_lock_back(t) ==
    /\ pc[t] = "s_back"
    /\ heap' = [heap EXCEPT ![re[t].ptr].inner = Cs_unlock(@, t)]
    /\ pc' = [pc EXCEPT ![t] = "idle"]
    /\ ret' = [ret EXCEPT ![t] = "panic"]
    /\ RWReturns(t)
    /\ UNCHANGED <<slock, rwacq, remret, op, round>>
    /\ UNCHANGED srvars

\* RWLock::unlock: *self.held.get() = false;
RWLock_unlock_clear(t) ==
    /\ pc[t] = "s_clear"
    /\ slock' = [slock EXCEPT !.held = FALSE]
    /\ pc' = [pc EXCEPT ![t] = "s_load"]
    /\ UNCHANGED <<heap, re, rwacq, remret, op, ret, round>>
    /\ UNCHANGED srvars

\* RWLock::unlock: (*self.remutex()).unlock(), LeaveCriticalSection.
RWLock_unlock_release(t) ==
    /\ pc[t] = "s_release"
    /\ heap' = [heap EXCEPT ![re[t].ptr].inner = Cs_unlock(@, t)]
    /\ pc' = [pc EXCEPT ![t] = "idle"]
    /\ ret' = [ret EXCEPT ![t] = "ok"]
    /\ rwacq' = [rwacq EXCEPT ![t] = Released(@, op[t])]
    /\ RWReturns(t)
    /\ UNCHANGED <<slock, remret, op, round>>
    /\ UNCHANGED srvars

\* A lock() whose read() takes the SRW lock shared: granted while no writer
\* owns it.
RWLock_srw_lock_shared(t) ==
    /\ pc[t] = "s_srw"
    /\ op[t] \in RWLockOps
    /\ slock.writer = NoThread \/ op[t] = "read"
    /\ slock' = [slock EXCEPT !.writer = IF op[t] = "read" THEN @ ELSE t]
    /\ pc' = [pc EXCEPT ![t] = "idle"]
    /\ ret' = [ret EXCEPT ![t] = "ok"]
    /\ rwacq' = [rwacq EXCEPT ![t] = Acquired(@, op[t])]
    /\ UNCHANGED <<heap, re, remret, op, round>>
    /\ UNCHANGED srvars

\* SrwLock arm of lock(): AcquireSRWLockExclusive returns when no thread
\* owns the lock.
RWLock_srw_lock(t) ==
    /\ pc[t] = "s_srw"
    /\ op[t] \in RWLockOps
    /\ slock.writer = NoThread
    /\ slock' = [slock EXCEPT !.writer = t]
    /\ pc' = [pc EXCEPT ![t] = "idle"]
    /\ ret' = [ret EXCEPT ![t] = "ok"]
    /\ rwacq' = [rwacq EXCEPT ![t] = Acquired(@, op[t])]
    /\ UNCHANGED <<heap, re, remret, op, round>>
    /\ UNCHANGED srvars

\* SrwLock arm of unlock(): ReleaseSRWLockExclusive.
RWLock_srw_unlock(t) ==
    /\ pc[t] = "s_srw"
    /\ op[t] \in RWLockUnlockOps
    /\ slock' = [slock EXCEPT !.writer = NoThread]
    /\ pc' = [pc EXCEPT ![t] = "idle"]
    /\ ret' = [ret EXCEPT ![t] = "ok"]
    /\ rwacq' = [rwacq EXCEPT ![t] = Released(@, op[t])]
    /\ UNCHANGED <<heap, re, remret, op, round>>
    /\ UNCHANGED srvars

\* One step of a thread inside a call of the static RWLock.
RWLockStep(t) ==
    \/ RWLock_remutex_load(t)
    \/ RWLock_remutex_alloc(t)
    \/ RWLock_remutex_cas(t)
    \/ RWLock_remutex_free(t)
    \/ RWLock_lock_native(t)
    \/ RWLock_flag_locked(t)
    \/ RWLock_lock_back(t)
    \/ RWLock_unlock_clear(t)
    \/ RWLock_unlock_release(t)
    \/ RWLock_srw_lock(t)
    \/ RWLock_srw_unlock(t)

\* The threads that hold the static RWLock.
RWLockHolders == {t \in Threads : rwacq[t].r + rwacq[t].w > 0}

\* Where operation o of the static RWLock starts.
RWLockEntry(o) ==
    CASE MUTEX_KIND = "SrwLock" -> "s_srw"
      [] o \in RWLockUnlockOps -> "s_clear"
      [] OTHER -> "s_load"

\* "static": thread t calls operation o of the static RWLock.  An unlock is
\* called by a holder, in the mode it holds; a holder may call lock() again
\* (a caught panic lets it go on), and round counts these recursive calls up
\* to MaxDepth.
CallStatic(t, o) ==
    /\ scen = "static"
    /\ phase = "main"
    /\ pc[t] = "idle"
    /\ o \in RWLockOps \cup RWLockUnlockOps
    /\ o = "read_unlock" => rwacq[t].r > 0
    /\ o \in {"write_unlock", "unlock"} => rwacq[t].w > 0
    /\ (o \in RWLockOps /\ t \in RWLockHolders) => round < MaxDepth
    /\ round' = IF o \in RWLockOps /\ t \in RWLockHolders THEN round + 1 ELSE round
    /\ op' = [op EXCEPT ![t] = o]
    /\ pc' = [pc EXCEPT ![t] = RWLockEntry(o)]
    /\ ret' = [ret EXCEPT ![t] = "none"]
    /\ UNCHANGED <<slock, heap, re, rwacq, remret>>
    /\ UNCHANGED srvars

\* ------------------------------------------------------------ specification

\* The statics and the objects before any initialiser or call has run.
InitObjects ==
    /\ MUTEX_KIND = "SrwLock"
    /\ lazy = LazyNew
    /\ local = [t \in Threads |-> LocalNew]
    /\ mutex = [life |-> "none", inner |-> Srw_new, held |-> FALSE]
    /\ cv = [life |-> "none", inner |-> "zero", signalled |-> FALSE]
    /\ rmutex = [life |-> "none", inner |-> Cs_new]
    /\ rused = {}
    /\ op = [t \in Threads |-> "none"]
    /\ pc = [t \in Threads |-> "idle"]
    /\ ret = [t \in Threads |-> "none"]
    /\ acq = [t \in Threads |-> 0]
    /\ racq = [t \in Threads |-> 0]
    /\ obs = [t \in Threads |-> NoThread]
    /\ round = 0
    /\ wres = [t \in Threads |-> "none"]
    /\ missed = {}
    /\ InitRW
    /\ slock = RWLock_new

\* The eager probes have run (each flag holds the host's answer) and the
\* selector has its turn.
InitCommon ==
    /\ AVAILABLE \in [Caps -> BOOLEAN]
    /\ phase = "crt"
    /\ InitObjects

Init == InitCommon /\ scen = "free"

\* Process start: no entry of the initialiser table has run.
InitBoot ==
    /\ AVAILABLE = [cap \in Caps |-> FALSE]
    /\ phase = "xcu"
    /\ InitObjects
    /\ scen = "boot"


Next ==
    \/ compat_init
    \/ Mutex_new
    \/ Mutex_init
    \/ Mutex_destroy
    \/ \E t \in Threads : CallTryLock(t)
    \/ \E t \in Threads : CallLock(t)
    \/ \E t \in Threads : CallUnlock(t)
    \/ \E t \in Threads : MutexStep(t)
    \/ Condvar_new
    \/ Condvar_init
    \/ Condvar_destroy
    \/ \E t \in Threads : CallWait(t)
    \/ \E t \in Threads : CondvarStep(t)
    \/ \E t \in Threads : Condvar_notify_one(t)
    \/ \E t \in Threads : Condvar_notify_all(t)

Spec == Init /\ [][Next]_vars

\* The MovableRWLock on the tier init() selected, called by NCallers threads.
NextRW ==
    \/ compat_init
    \/ RW_new
    \/ RW_destroy
    \/ \E t \in 1..NCallers : \E o \in RWOps : CallRW(t, o)
    \/ \E t \in Threads : RWStep(t)

SpecRW == Init /\ [][NextRW]_vars

\* The first uses of one MovableRWLock by all threads.
InitInstall ==
    /\ InitCommon
    /\ scen = "install"
    /\ ~AVAILABLE["TryAcquireSRWLockExclusive"]

NextInstall ==
    \/ compat_init
    \/ RW_new
    \/ RW_destroy
    \/ \E t \in Threads : \E o \in InstallOps : InstallCall(t, o)
    \/ \E t \in Threads : RemutexStep(t)
    \/ \E t \in Threads : RW_try_lock_native(t)
    \/ \E t \in Threads : RW_flag(t)
    \/ \E t \in Threads : RW_unlock_clear(t)
    \/ \E t \in Threads : RW_unlock_release(t)

SpecInstall == InitInstall /\ [][NextInstall]_vars

\* "correct": every thread keeps the contract of the Mutex: lock() and
\* try_lock() only while it does not hold the lock, unlock() and wait() only
\* while it does.
CorrectOps == {"lock", "try_lock", "unlock", "wait"}

CorrectCall(t, o) ==
    /\ scen = "correct"
    /\ MutexUsable
    /\ o \in CorrectOps
    /\ o \in {"lock", "try_lock"} => acq[t] = 0
    /\ o \in {"unlock", "wait"} => acq[t] > 0
    /\ o = "wait" => CondvarUsable
    /\ Begin(t, o, CASE o = "unlock" -> UnlockEntry
                     [] o = "wait" -> WaitEntry
                     [] OTHER -> "native")
    /\ wres' = IF o = "wait" THEN [wres EXCEPT ![t] = "INFINITE"] ELSE wres
    /\ UNCHANGED rwvars
    /\ UNCHANGED <<missed, AVAILABLE, phase, MUTEX_KIND, mutex, cv, rmutex, rused, acq,
                   racq, scen, lazy, local, round>>

InitCorrect == InitCommon /\ scen = "correct"

NextCorrect ==
    \/ compat_init
    \/ Mutex_new
    \/ Mutex_init
    \/ Mutex_destroy
    \/ \E t \in Threads : \E o \in CorrectOps : CorrectCall(t, o)
    \/ \E t \in Threads : MutexStep(t)
    \/ Condvar_new
    \/ Condvar_init
    \/ Condvar_destroy
    \/ \E t \in Threads : CondvarStep(t)
    \/ \E t \in Threads : Condvar_notify_one(t)
    \/ \E t \in Threads : Condvar_notify_all(t)

SpecCorrect == InitCorrect /\ [][NextCorrect]_vars

\* The results WaitForSingleObject can give.
WaitResults == {"WAIT_OBJECT_0", "WAIT_TIMEOUT", "WAIT_ABANDONED", "WAIT_FAILED"}

\* wait_timeout() by a thread that keeps the contract.
\* A wait that takes the lock again before it panics.
Condvar_wait_fails_locked(t) ==
    /\ MUTEX_KIND # "SrwLock"
    /\ pc[t] \in {"event", "blocked"}
    /\ op[t] \in WaitOps
    /\ Mutex_can_lock(MUTEX_KIND, mutex.inner, t)
    /\ mutex' = [mutex EXCEPT !.inner = Mutex_native_lock(MUTEX_KIND, @, t),
                              !.held = TRUE]
    /\ acq' = [acq EXCEPT ![t] = @ + 1]
    /\ pc' = [pc EXCEPT ![t] = "idle"]
    /\ ret' = [ret EXCEPT ![t] = "panic"]
    /\ WaitEnds(t)
    /\ UNCHANGED rwvars
    /\ UNCHANGED <<AVAILABLE, phase, MUTEX_KIND, cv, rmutex, rused, op, racq,
                   obs, scen, lazy, local, round>>

\* Condvar::wait / wait_timeout, CriticalSection/Legacy arm:
\* WaitForSingleObject(event, ..) returns a result r that is neither
\* WAIT_OBJECT_0 nor WAIT_TIMEOUT, at once or after the thread was suspended;
\* the call panics where it stands, after mutex.unlock() and before
\* mutex.lock().
Condvar_wait_fails(t) ==
    /\ MUTEX_KIND # "SrwLock"
    /\ pc[t] \in {"event", "blocked"}
    /\ op[t] \in WaitOps
    /\ \E r \in WaitResults \ {"WAIT_OBJECT_0", "WAIT_TIMEOUT"} :
         ret' = [ret EXCEPT ![t] = IF op[t] = "wait" THEN wait_ret(r)
                                   ELSE wait_timeout_ret(MUTEX_KIND, r)]
    /\ pc' = [pc EXCEPT ![t] = "idle"]
    /\ WaitEnds(t)
    /\ UNCHANGED rwvars
    /\ UNCHANGED <<AVAILABLE, phase, MUTEX_KIND, mutex, cv, rmutex, rused, op, acq,
                   racq, obs, scen, lazy, local, round>>

InitStatic == InitCommon /\ scen = "static"

\* Both read/write locks, each in a run of its own.
InitWord == InitCommon /\ scen \in {"free", "static"}

NextStatic ==
    \/ compat_init
    \/ \E t \in 1..NCallers : \E o \in RWLockOps \cup RWLockUnlockOps : CallStatic(t, o)
    \/ \E t \in Threads : RWLockStep(t)

SpecStatic == InitStatic /\ [][NextStatic]_vars

NextWord == NextRW \/ NextStatic

SpecWord == InitWord /\ [][NextWord]_vars

\* The Mutex with the Condvar, and the static RWLock, each in a run of its
\* own.
NextHeld == Next \/ NextStatic

SpecHeld == InitWord /\ [][NextHeld]_vars

\* The results of the host wait on the Legacy mutex handle that the state of
\* the mutex object does not give by itself.
\* What LegacyMutex::lock / try_lock, called by operation o, does with the
\* result r of WaitForSingleObject(handle, ..).
host_ret(o, r) ==
    IF o = "try_lock" THEN Legacy_try_lock_ret(r) ELSE Legacy_lock_ret(r)

\* WaitForSingleObject(handle, ..) of LegacyMutex::lock / try_lock returns a
\* result other than WAIT_OBJECT_0 that the state of the mutex object does not
\* account for: the wait has acquired nothing, the result is in hand.
Legacy_wait_returns(t) ==
    /\ MUTEX_KIND = "Legacy"
    /\ pc[t] = "native"
    /\ op[t] \in LockOps \cup {"try_lock"}
    /\ \E r \in WaitResults \ {"WAIT_OBJECT_0"} : wres' = [wres EXCEPT ![t] = r]
    /\ pc' = [pc EXCEPT ![t] = "host"]
    /\ UNCHANGED rwvars
    /\ UNCHANGED <<missed, AVAILABLE, phase, MUTEX_KIND, mutex, cv, rmutex, rused, op, ret,
                   acq, racq, obs, scen, lazy, local, round>>

\* The if / match on that result: lock() panics, try_lock() returns false
\* for WAIT_TIMEOUT and panics otherwise; Mutex::lock, Mutex::try_lock and
\* the mutex.lock() of wait / wait_timeout pass the outcome on.
HostClassify(t) ==
    /\ pc[t] = "host"
    /\ ret' = [ret EXCEPT ![t] = host_ret(op[t], wres[t])]
    /\ pc' = [pc EXCEPT ![t] = "idle"]
    /\ WaitEnds(t)
    /\ UNCHANGED rwvars
    /\ UNCHANGED <<AVAILABLE, phase, MUTEX_KIND, mutex, cv, rmutex, rused, op,
                   acq, racq, obs, scen, lazy, local, round>>

\* "rwseq": one thread runs write(), write_unlock(), read(), read_unlock(),
\* try_write() on a fresh MovableRWLock.
RWSeq == <<"write", "write_unlock", "read", "read_unlock", "try_write">>

RWSeqCall(t) ==
    /\ scen = "rwseq"
    /\ round < Len(RWSeq)
    /\ round = 0 \/ op[t] # "none"
    /\ RWBegin(t, RWSeq[round + 1])
    /\ round' = round + 1
    /\ UNCHANGED <<AVAILABLE, phase, MUTEX_KIND, mutex, cv, rmutex, rused, acq,
                   racq, obs, scen, lazy, local, wres, missed, slock>>

InitRWSeq == InitCommon /\ scen = "rwseq"

NextRWSeq ==
    \/ compat_init
    \/ RW_new
    \/ \E t \in Threads : RWSeqCall(t)
    \/ \E t \in Threads : atomic_boxed_init_load(t)
    \/ \E t \in Threads : atomic_boxed_init_alloc(t)
    \/ \E t \in Threads : atomic_boxed_init_cas(t)
    \/ \E t \in Threads : RW_lock_native(t)
    \/ \E t \in Threads : RW_try_lock_native(t)
    \/ \E t \in Threads : RW_flag(t)
    \/ \E t \in Threads : RW_unlock_clear(t)
    \/ \E t \in Threads : RW_unlock_release(t)
    \/ \E t \in Threads : RW_srw_lock(t)
    \/ \E t \in Threads : RW_srw_try_lock(t)
    \/ \E t \in Threads : RW_srw_unlock(t)

SpecRWSeq == InitRWSeq /\ [][NextRWSeq]_vars

\* The Mutex and the Condvar with wait_timeout() and its time-out.
NextCv ==
    \/ Next
    \/ \E t \in Threads : CallWaitTimeout(t)
    \/ \E t \in Threads : Condvar_timeout(t)

SpecCv == Init /\ [][NextCv]_vars

\* Any calls, with wait_timeout(), its time-out, and host waits that fail.
NextPanic ==
    \/ NextCv
    \/ \E t \in Threads : Condvar_wait_fails(t)

SpecPanic == Init /\ [][NextPanic]_vars

\* Any calls of the first NCallers threads, with host waits on the event and
\* on the Legacy mutex handle that give every result of WaitResults.
NextHost ==
    \/ compat_init
    \/ Mutex_new
    \/ Mutex_init
    \/ Mutex_destroy
    \/ Condvar_new
    \/ Condvar_init
    \/ Condvar_destroy
    \/ \E t \in 1..NCallers : CallLock(t)
    \/ \E t \in 1..NCallers : CallTryLock(t)
    \/ \E t \in 1..NCallers : CallUnlock(t)
    \/ \E t \in 1..NCallers : CallWait(t)
    \/ \E t \in 1..NCallers : CallWaitTimeout(t)
    \/ \E t \in 1..NCallers : Condvar_notify_one(t)
    \/ \E t \in 1..NCallers : Condvar_notify_all(t)
    \/ \E t \in Threads : MutexStep(t)
    \/ \E t \in Threads : CondvarStep(t)
    \/ \E t \in Threads : Condvar_timeout(t)
    \/ \E t \in Threads : Condvar_wait_fails(t)
    \/ \E t \in Threads : Legacy_wait_returns(t)
    \/ \E t \in Threads : HostClassify(t)

SpecHost == Init /\ [][NextHost]_vars

\* Fair scheduling: a thread inside a call goes on with it, and a thread that
\* waits for the native lock gets it if the lock is free again and again.
Fairness ==
    \A t \in Threads :
        /\ WF_vars(MutexStep(t))
        /\ WF_vars(CondvarStep(t))
        /\ SF_vars(Mutex_lock_native(t))

SpecLive == Init /\ [][Next]_vars /\ Fairness

\* ------------------------------------------------------------ scenarios
\* The test driver of the sequential and of the racing scenario: scen names
\* the scenario and round the position in it.  The calls go through the same
\* Mutex steps as above.

\* "seq": one thread calls lock() and then unlock() on a fresh Mutex that no
\* other thread uses.
SeqLock(t) ==
    /\ scen = "seq"
    /\ round = 0
    /\ MutexUsable
    /\ Begin(t, "lock", "native")
    /\ round' = 1
    /\ UNCHANGED rwvars
    /\ UNCHANGED <<missed, wres, AVAILABLE, phase, MUTEX_KIND, mutex, cv, rmutex, rused, acq,
                   racq, scen, lazy, local>>

SeqUnlock(t) ==
    /\ scen = "seq"
    /\ round = 1
    /\ Returned(t, "lock")
    /\ ret[t] = "ok"
    /\ Begin(t, "unlock", UnlockEntry)
    /\ round' = 2
    /\ UNCHANGED rwvars
    /\ UNCHANGED <<missed, wres, AVAILABLE, phase, MUTEX_KIND, mutex, cv, rmutex, rused, acq,
                   racq, scen, lazy, local>>

\* "race": every thread calls try_lock() once on a fresh Mutex, in any
\* interleaving; when all have returned the winner calls unlock(); after that
\* one more try_lock() is made by any thread.
RaceTry(t) ==
    /\ scen = "race"
    /\ round = 0
    /\ MutexUsable
    /\ op[t] = "none"
    /\ Begin(t, "try_lock", "native")
    /\ UNCHANGED rwvars
    /\ UNCHANGED <<missed, wres, AVAILABLE, phase, MUTEX_KIND, mutex, cv, rmutex, rused, acq,
                   racq, scen, lazy, local, round>>

RaceUnlock(t) ==
    /\ scen = "race"
    /\ round = 0
    /\ \A u \in Threads : Returned(u, "try_lock")
    /\ ret[t] = "true"
    /\ Begin(t, "unlock", UnlockEntry)
    /\ round' = 1
    /\ UNCHANGED rwvars
    /\ UNCHANGED <<missed, wres, AVAILABLE, phase, MUTEX_KIND, mutex, cv, rmutex, rused, acq,
                   racq, scen, lazy, local>>

RaceRetry(t) ==
    /\ scen = "race"
    /\ round = 1
    /\ Quiet
    /\ Begin(t, "try_lock", "native")
    /\ round' = 2
    /\ UNCHANGED rwvars
    /\ UNCHANGED <<missed, wres, AVAILABLE, phase, MUTEX_KIND, mutex, cv, rmutex, rused, acq,
                   racq, scen, lazy, local>>

InitScen == InitCommon /\ scen \in {"seq", "race"}

NextScen ==
    \/ compat_init
    \/ Mutex_new
    \/ Mutex_init
    \/ \E t \in Threads : SeqLock(t)
    \/ \E t \in Threads : SeqUnlock(t)
    \/ \E t \in Threads : RaceTry(t)
    \/ \E t \in Threads : RaceUnlock(t)
    \/ \E t \in Threads : RaceRetry(t)
    \/ \E t \in Threads : MutexStep(t)

SpecScen == InitScen /\ [][NextScen]_vars

\* ------------------------------------------------------------ ReentrantMutex
\* ReentrantMutex holds the storage of a CriticalSectionMutex and casts it to
\* the backend each method's match MUTEX_KIND selects.  rused records, for
\* every method that has run, the backend it dispatched to.

\* A backend by name.
Backend_init(b, n, created) ==
    IF b = "critical_section" THEN Cs_init(n) ELSE Legacy_init(n, created)
Backend_can_lock(b, n, t) ==
    CASE b = "critical_section" -> Cs_can_lock(n, t)
      [] b = "legacy" -> Legacy_can_lock(n, t)
      [] b = "srwlock" -> Srw_can_lock(n, t)
Backend_lock(b, n, t) ==
    CASE b = "critical_section" -> Cs_lock(n, t)
      [] b = "legacy" -> Legacy_lock(n, t)
      [] b = "srwlock" -> Srw_lock(n, t)
Backend_try_lock(b, n, t) ==
    CASE b = "critical_section" -> Cs_try_lock(n, t)
      [] b = "legacy" -> Legacy_try_lock(n, t)
      [] b = "srwlock" -> Srw_try_lock(n, t)
Backend_unlock(b, n, t) ==
    CASE b = "critical_section" -> Cs_unlock(n, t)
      [] b = "legacy" -> Legacy_unlock(n, t)
      [] b = "srwlock" -> Srw_unlock(n, t)
Backend_destroy(b, n) ==
    CASE b = "critical_section" -> Cs_destroy(n)
      [] b = "legacy" -> Legacy_destroy(n)
      [] b = "srwlock" -> Srw_destroy(n)

\* The match of ReentrantMutex::init
RM_init_backend(kind) ==
    IF kind \in {"SrwLock", "CriticalSection"} THEN "critical_section" ELSE "legacy"

\* A lock() that follows Mutex and takes the SRW lock on the Modern tier.
RM_lock_backend_srw(kind) ==
    CASE kind = "SrwLock" -> "srwlock"
      [] kind = "CriticalSection" -> "critical_section"
      [] kind = "Legacy" -> "legacy"
\* The match of ReentrantMutex::lock
RM_lock_backend(kind) ==
    IF kind \in {"SrwLock", "CriticalSection"} THEN "critical_section" ELSE "legacy"

\* The match of ReentrantMutex::try_lock
RM_try_lock_backend(kind) ==
    IF kind \in {"SrwLock", "CriticalSection"} THEN "critical_section" ELSE "legacy"

\* The match of ReentrantMutex::unlock
RM_unlock_backend(kind) ==
    IF kind \in {"SrwLock", "CriticalSection"} THEN "critical_section" ELSE "legacy"

\* The match of ReentrantMutex::destroy
RM_destroy_backend(kind) ==
    IF kind \in {"SrwLock", "CriticalSection"} THEN "critical_section" ELSE "legacy"

\* ReentrantMutex::uninitialized()
RM_uninitialized ==
    /\ phase = "main"
    /\ rmutex.life = "none"
    /\ rmutex' = [life |-> "new", inner |-> Cs_new]
    /\ UNCHANGED rwvars
    /\ UNCHANGED <<missed, wres, AVAILABLE, phase, MUTEX_KIND, mutex, cv, rused, op, pc, ret,
                   acq, racq, obs, scen, lazy, local, round>>

\* ReentrantMutex::init()
RM_init ==
    /\ rmutex.life = "new"
    /\ Quiet
    /\ LET b == RM_init_backend(MUTEX_KIND) IN
       \E created \in BOOLEAN :
         /\ (b # "legacy") => created
         /\ rmutex' = [life |-> IF created THEN "init" ELSE "failed",
                       inner |-> Backend_init(b, rmutex.inner, created)]
         /\ rused' = rused \cup {<<"init", b>>}
    /\ UNCHANGED rwvars
    /\ UNCHANGED <<missed, wres, AVAILABLE, phase, MUTEX_KIND, mutex, cv, op, pc, ret, acq,
                   racq, obs, scen, lazy, local, round>>

RMutexUsable ==
    /\ phase = "main"
    /\ rmutex.life = "init"
    /\ rmutex.inner.obj = "ready"

\* ReentrantMutex::lock(): the native acquire; the thread stays here until
\* the primitive lets it in.
RM_lock(t) ==
    /\ pc[t] = "rnative"
    /\ op[t] = "r_lock"
    /\ LET b == RM_lock_backend(MUTEX_KIND) IN
         /\ Backend_can_lock(b, rmutex.inner, t)
         /\ rmutex' = [rmutex EXCEPT !.inner = Backend_lock(b, @, t)]
         /\ rused' = rused \cup {<<"lock", b>>}
    /\ obs' = [obs EXCEPT ![t] = rmutex.inner.owner]
    /\ pc' = [pc EXCEPT ![t] = "idle"]
    /\ ret' = [ret EXCEPT ![t] = "ok"]
    /\ racq' = [racq EXCEPT ![t] = @ + 1]
    /\ UNCHANGED rwvars
    /\ UNCHANGED <<missed, wres, AVAILABLE, phase, MUTEX_KIND, mutex, cv, op, acq, scen, lazy, local, round>>

\* ReentrantMutex::try_lock()
RM_try_lock(t) ==
    /\ pc[t] = "rnative"
    /\ op[t] = "r_try_lock"
    /\ LET b == RM_try_lock_backend(MUTEX_KIND) IN
         /\ rused' = rused \cup {<<"try_lock", b>>}
         /\ IF Backend_try_lock(b, rmutex.inner, t)
            THEN /\ rmutex' = [rmutex EXCEPT !.inner = Backend_lock(b, @, t)]
                 /\ ret' = [ret EXCEPT ![t] = "true"]
                 /\ racq' = [racq EXCEPT ![t] = @ + 1]
            ELSE /\ ret' = [ret EXCEPT ![t] = "false"]
                 /\ UNCHANGED <<rmutex, racq>>
    /\ obs' = [obs EXCEPT ![t] = rmutex.inner.owner]
    /\ pc' = [pc EXCEPT ![t] = "idle"]
    /\ UNCHANGED rwvars
    /\ UNCHANGED <<missed, wres, AVAILABLE, phase, MUTEX_KIND, mutex, cv, op, acq, scen, lazy, local, round>>

\* ReentrantMutex::unlock()
RM_unlock(t) ==
    /\ pc[t] = "rrelease"
    /\ op[t] = "r_unlock"
    /\ LET b == RM_unlock_backend(MUTEX_KIND) IN
         /\ rmutex' = [rmutex EXCEPT !.inner = Backend_unlock(b, @, t)]
         /\ rused' = rused \cup {<<"unlock", b>>}
    /\ pc' = [pc EXCEPT ![t] = "idle"]
    /\ ret' = [ret EXCEPT ![t] = "ok"]
    /\ racq' = [racq EXCEPT ![t] = @ - 1]
    /\ UNCHANGED rwvars
    /\ UNCHANGED <<missed, wres, AVAILABLE, phase, MUTEX_KIND, mutex, cv, op, acq, obs, scen, lazy, local,
                   round>>

\* ReentrantMutex::destroy(): the caller guarantees that the lock is not in use.
RM_destroy ==
    /\ RMutexUsable
    /\ Quiet
    /\ rmutex.inner.owner = NoThread
    /\ LET b == RM_destroy_backend(MUTEX_KIND) IN
         /\ rmutex' = [life |-> "destroyed", inner |-> Backend_destroy(b, rmutex.inner)]
         /\ rused' = rused \cup {<<"destroy", b>>}
    /\ UNCHANGED rwvars
    /\ UNCHANGED <<missed, wres, AVAILABLE, phase, MUTEX_KIND, mutex, cv, op, pc, ret, acq,
                   racq, obs, scen, lazy, local, round>>

\* Callers: unlock() only by a thread with an acquisition outstanding.
RDepthOk(t) == (rmutex.inner.owner = t) => (rmutex.inner.count < MaxDepth)

\* TryEnterCriticalSection is present on every host that has the backend
\* try_lock() dispatches to (its compat fallback body is not part of this model).
RTryAvailable ==
    (RM_try_lock_backend(MUTEX_KIND) = "critical_section")
        => available("TryEnterCriticalSection")

CallRLock(t) ==
    /\ scen = "free"
    /\ RMutexUsable
    /\ RDepthOk(t)
    /\ Begin(t, "r_lock", "rnative")
    /\ UNCHANGED rwvars
    /\ UNCHANGED <<missed, wres, AVAILABLE, phase, MUTEX_KIND, mutex, cv, rmutex, rused, acq,
                   racq, scen, lazy, local, round>>

CallRTryLock(t) ==
    /\ scen = "free"
    /\ RMutexUsable
    /\ RTryAvailable
    /\ RDepthOk(t)
    /\ Begin(t, "r_try_lock", "rnative")
    /\ UNCHANGED rwvars
    /\ UNCHANGED <<missed, wres, AVAILABLE, phase, MUTEX_KIND, mutex, cv, rmutex, rused, acq,
                   racq, scen, lazy, local, round>>

CallRUnlock(t) ==
    /\ scen = "free"
    /\ RMutexUsable
    /\ racq[t] > 0
    /\ Begin(t, "r_unlock", "rrelease")
    /\ UNCHANGED rwvars
    /\ UNCHANGED <<missed, wres, AVAILABLE, phase, MUTEX_KIND, mutex, cv, rmutex, rused, acq,
                   racq, scen, lazy, local, round>>

NextReentrant ==
    \/ compat_init
    \/ RM_uninitialized
    \/ RM_init
    \/ RM_destroy
    \/ \E t \in Threads : CallRLock(t)
    \/ \E t \in Threads : CallRTryLock(t)
    \/ \E t \in Threads : CallRUnlock(t)
    \/ \E t \in Threads : RM_lock(t)
    \/ \E t \in Threads : RM_try_lock(t)
    \/ \E t \in Threads : RM_unlock(t)

SpecReentrant == Init /\ [][NextReentrant]_vars

\* SpecAll: the three primitives together, used by the first NAll threads.
NAll == 2

NextAll ==
    \/ compat_init
    \/ Mutex_new
    \/ Mutex_init
    \/ Mutex_destroy
    \/ Condvar_new
    \/ Condvar_init
    \/ Condvar_destroy
    \/ RM_uninitialized
    \/ RM_init
    \/ RM_destroy
    \/ \E t \in 1..NAll : CallLock(t)
    \/ \E t \in 1..NAll : CallTryLock(t)
    \/ \E t \in 1..NAll : CallUnlock(t)
    \/ \E t \in 1..NAll : CallWait(t)
    \/ \E t \in 1..NAll : CallWaitTimeout(t)
    \/ \E t \in Threads : Condvar_timeout(t)
    \/ \E t \in 1..NAll : Condvar_notify_one(t)
    \/ \E t \in 1..NAll : Condvar_notify_all(t)
    \/ \E t \in 1..NAll : CallRLock(t)
    \/ \E t \in 1..NAll : CallRTryLock(t)
    \/ \E t \in 1..NAll : CallRUnlock(t)
    \/ \E t \in Threads : MutexStep(t)
    \/ \E t \in Threads : CondvarStep(t)
    \/ \E t \in Threads : RM_lock(t)
    \/ \E t \in Threads : RM_try_lock(t)
    \/ \E t \in Threads : RM_unlock(t)

SpecAll == Init /\ [][NextAll]_vars

\* Every primitive: a process that uses Mutex, Condvar and ReentrantMutex
\* ("free"), one that uses a MovableRWLock ("rw") and one that uses the static
\* RWLock ("static").
InitEvery == InitCommon /\ scen \in {"free", "rw", "static"}

NextEvery ==
    \/ scen = "free" /\ NextAll
    \/ scen = "rw" /\ NextRW
    \/ scen = "static" /\ NextStatic

SpecEvery == InitEvery /\ [][NextEvery]_vars

NextBoot ==
    \/ \E cap \in Caps : compat_fn_init(cap)
    \/ compat_init
    \/ compat_init_again
    \/ Mutex_new
    \/ Mutex_init
    \/ Mutex_destroy
    \/ Condvar_new
    \/ Condvar_init
    \/ Condvar_destroy
    \/ RM_uninitialized
    \/ RM_init
    \/ RM_destroy

SpecBoot == InitBoot /\ [][NextBoot]_vars

InitLazy == InitCommon /\ scen = "lazy"

NextLazy ==
    \/ compat_init
    \/ \E t \in Threads : \E o \in LazyOps : CallLazy(t, o)
    \/ \E t \in Threads : LazyStep(t)

SpecLazy == InitLazy /\ [][NextLazy]_vars

\* ------------------------------------------------------------ properties

TypeOK ==
    /\ AVAILABLE \in [Caps -> BOOLEAN]
    /\ phase \in {"xcu", "crt", "main"}
    /\ MUTEX_KIND \in Kinds
    /\ mutex.life \in {"none", "new", "init", "failed", "destroyed"}
    /\ mutex.held \in BOOLEAN
    /\ mutex.inner.owner \in Threads \cup {NoThread}
    /\ mutex.inner.count \in 0..MaxDepth
    /\ rmutex.inner.count \in 0..MaxDepth
    /\ \A t \in Threads : acq[t] \in 0..MaxDepth /\ racq[t] \in 0..MaxDepth

\* C1: mutual exclusion of the Exclusive Lock.  On every tier and in every
\* interleaving of lock(), try_lock(), unlock() (and wait()), at most one
\* thread is between a successful lock()/try_lock() and its matching
\* unlock(), and that thread owns the native primitive.
C1_MutualExclusion ==
    /\ \A t, u \in Threads : (Holding(t) /\ Holding(u)) => t = u
    /\ \A t \in Threads : Holding(t) => mutex.inner.owner = t

\* A thread holds the lock and another thread's try_lock() was refused
\* because of it.
C1_Witness ==
    \E t, u \in Threads :
        /\ t # u
        /\ Holding(t)
        /\ Returned(u, "try_lock")
        /\ ret[u] = "false"
        /\ obs[u] = t

\* C2: on every tier and after any sequence of operations, try_lock() called
\* while the lock is held (by another thread or by the caller itself)
\* returns false, and called while the lock is unheld it returns true and
\* the caller then holds the lock.
C2_TryLockResult ==
    \A t \in Threads :
        Returned(t, "try_lock") =>
            /\ (ret[t] = "true") <=> (obs[t] = NoThread)
            /\ (ret[t] = "true") => (mutex.inner.owner = t /\ Holding(t))

\* C3: on the Intermediate and Legacy tiers a lock() by the thread that
\* already holds the Exclusive Lock never returns normally: it panics.
C3_RecursiveLockPanics ==
    \A t \in Threads :
        (MUTEX_KIND # "SrwLock" /\ Returned(t, "lock") /\ obs[t] = t)
            => ret[t] = "panic"

\* C4: in the racing scenario on the Intermediate tier, once every thread's
\* try_lock() on the fresh Mutex has returned exactly one of them returned
\* true and all others false; and after the winner's unlock() the further
\* try_lock() returns true.
C4_RaceOneWinner ==
    (scen = "race" /\ MUTEX_KIND = "CriticalSection") =>
        /\ (round = 0 /\ \A u \in Threads : Returned(u, "try_lock"))
              => Cardinality({u \in Threads : ret[u] = "true"}) = 1
        /\ (round = 2 /\ Quiet)
              => Cardinality({u \in Threads : ret[u] = "true"}) = 1

\* The race has been run to its end on the Intermediate tier: the winner has
\* unlocked and the further try_lock() has returned.
C4_Witness ==
    /\ scen = "race"
    /\ MUTEX_KIND = "CriticalSection"
    /\ round = 2
    /\ Quiet
    /\ \E t, u \in Threads : t # u /\ Returned(t, "unlock") /\ ret[u] = "true"

\* C5: on every tier, on a fresh (and where needed initialised) Mutex that no
\* other thread uses, lock() does not wait and does not panic, unlock()
\* completes, and the lock is unheld afterwards.
C5_SequentialLockUnlock ==
    scen = "seq" =>
        \A t \in Threads :
            /\ (op[t] = "lock" /\ pc[t] = "native")
                  => Mutex_can_lock(MUTEX_KIND, mutex.inner, t)
            /\ (op[t] = "lock") => pc[t] \in {"native", "flag", "idle"}
            /\ Returned(t, "lock") => (ret[t] = "ok" /\ mutex.inner.owner = t)
            /\ Returned(t, "unlock")
                  => /\ ret[t] = "ok"
                     /\ mutex.inner.owner = NoThread
                     /\ mutex.inner.count = 0
                     /\ ~mutex.held
                     /\ acq[t] = 0

\* lock() and unlock() have both returned on the Legacy tier.
C5_Witness ==
    /\ scen = "seq"
    /\ MUTEX_KIND = "Legacy"
    /\ round = 2
    /\ \E t \in Threads : Returned(t, "unlock")

\* C6: the tier selector: Modern if TryAcquireSRWLockExclusive is available
\* whatever the other probe says, else Intermediate if
\* TryEnterCriticalSection is available, else Legacy.
C6_TierRule ==
    phase = "main" =>
        /\ AVAILABLE["TryAcquireSRWLockExclusive"] => MUTEX_KIND = "SrwLock"
        /\ (~AVAILABLE["TryAcquireSRWLockExclusive"]
              /\ AVAILABLE["TryEnterCriticalSection"])
              => MUTEX_KIND = "CriticalSection"
        /\ (~AVAILABLE["TryAcquireSRWLockExclusive"]
              /\ ~AVAILABLE["TryEnterCriticalSection"])
              => MUTEX_KIND = "Legacy"

\* The selector has run on a host with both capabilities.
C6_Witness ==
    /\ phase = "main"
    /\ AVAILABLE["TryAcquireSRWLockExclusive"]
    /\ AVAILABLE["TryEnterCriticalSection"]
    /\ MUTEX_KIND = "SrwLock"

\* C7: once the tier selector has run, no step of any Mutex, ReentrantMutex,
\* Condvar, MovableRWLock or static RWLock operation changes MUTEX_KIND, so
\* every later operation dispatches on the value the selector wrote.
C7_KindStable == [][phase = "main" => MUTEX_KIND' = MUTEX_KIND]_vars

\* After the selector wrote a tag other than the initial one, a
\* MovableRWLock has been installed, written, read and destroyed.
C7_Witness ==
    /\ scen = "rw"
    /\ phase = "main"
    /\ MUTEX_KIND = "CriticalSection"
    /\ rwlock.life = "destroyed"
    /\ rwlock.lock # Null
    /\ heap[rwlock.lock].life = "freed"
    /\ \E t \in Threads : pc[t] = "idle" /\ op[t] = "write_unlock" /\ ret[t] = "ok"
    /\ \E t \in Threads : pc[t] = "idle" /\ op[t] = "read_unlock" /\ ret[t] = "ok"

\* C8: reentrant counting.  A thread with n outstanding acquisitions of the
\* ReentrantMutex owns the native primitive with ownership count n; no
\* other thread has an acquisition while that count is above 0; the owner's
\* further lock() is let in at once and returns normally, and a try_lock()
\* returns true only on a free lock or for the owner.
C8_ReentrantCounting ==
    /\ \A t, u \in Threads : (racq[t] > 0 /\ racq[u] > 0) => t = u
    /\ \A t \in Threads :
         racq[t] > 0 => (rmutex.inner.owner = t /\ rmutex.inner.count = racq[t])
    /\ \A t \in Threads :
         (op[t] = "r_lock" /\ pc[t] = "rnative" /\ racq[t] > 0)
            => Backend_can_lock(RM_lock_backend(MUTEX_KIND), rmutex.inner, t)
    /\ \A t \in Threads : Returned(t, "r_lock") => ret[t] = "ok"
    /\ \A t \in Threads :
         Returned(t, "r_try_lock") =>
            ((ret[t] = "true") <=> (obs[t] \in {NoThread, t}))

\* A thread holds the ReentrantMutex twice and another thread's try_lock()
\* was refused because of it.
C8_Witness ==
    \E t, u \in Threads :
        /\ t # u
        /\ racq[t] = 2
        /\ rmutex.inner.count = 2
        /\ Returned(u, "r_try_lock")
        /\ ret[u] = "false"
        /\ obs[u] = t

\* C9: ReentrantMutex never uses the SRW lock: on the Modern and Intermediate
\* tiers each of init, lock, try_lock, unlock, destroy dispatches to the
\* critical section, on Legacy each dispatches to the legacy mutex.
C9_ReentrantBackend ==
    \A p \in rused :
        /\ p[2] # "srwlock"
        /\ p[2] = (IF MUTEX_KIND = "Legacy" THEN "legacy" ELSE "critical_section")

\* All five operations have run on the Modern tier.
C9_Witness ==
    /\ MUTEX_KIND = "SrwLock"
    /\ {p[1] : p \in rused} = {"init", "lock", "try_lock", "unlock", "destroy"}

\* C10: Condvar::wait(lock) by a thread holding lock: while the caller is
\* suspended it does not own the lock; when wait returns normally the caller
\* holds the lock again (with the held flag set on Intermediate/Legacy); on
\* the Modern tier the caller is never between release and suspension.
C10_WaitReleasesAndReacquires ==
    /\ \A t \in Threads :
         pc[t] \in {"asleep", "blocked"} => mutex.inner.owner # t
    /\ \A t \in Threads :
         (pc[t] = "idle" /\ op[t] \in {"wait", "wait_relock"} /\ ret[t] = "ok")
            => /\ mutex.inner.owner = t
               /\ Holding(t)
               /\ (MUTEX_KIND # "SrwLock" => mutex.held)
    /\ \A t \in Threads :
         (MUTEX_KIND = "SrwLock" /\ op[t] = "wait" /\ pc[t] # "idle")
            => \/ pc[t] = "sleep" /\ mutex.inner.owner = t
               \/ pc[t] \in {"asleep", "reacquire"}

\* ------------------------------------------------------------ Condvar properties

\* A step of notify_one() or notify_all() by some thread.
NotifyStep == \E n \in Threads : Condvar_notify_one(n) \/ Condvar_notify_all(n)

\* The threads that have given up the lock inside wait / wait_timeout and
\* have not been woken or timed out.
WaitingReleased ==
    {u \in Threads : op[u] \in WaitOps /\ pc[u] \in {"event", "blocked", "asleep"}}

\* The host wait of thread t has ended.
Woken(t) == op[t] \in RelockOps \/ pc[t] = "reacquire"

\* C11: the lost-wakeup window.  On the Modern tier no thread is ever between
\* the release of the lock and the start of its wait, no notification is
\* missed, and a notification by a thread that holds the lock wakes a waiter
\* whenever a waiter has released the lock inside wait.  On the emulated
\* tiers a waiter that missed a notification (it was between mutex.unlock()
\* and WaitForSingleObject when a lock holder notified) leaves the event wait
\* only by a later notification or by its own time-out.
C11_LostWakeupWindow ==
    /\ [](MUTEX_KIND = "SrwLock" => (InWindow = {} /\ missed \subseteq {NoThread}))
    /\ [][(MUTEX_KIND = "SrwLock" /\ WaitingReleased # {}
           /\ \E n \in Threads : /\ acq[n] > 0
                                 /\ Condvar_notify_one(n) \/ Condvar_notify_all(n))
          => \E u \in WaitingReleased : pc'[u] = "reacquire"]_vars
    /\ [][\A t \in Threads :
            (t \in missed /\ pc[t] \in {"event", "blocked"} /\ op[t] \in WaitOps
             /\ op'[t] \in RelockOps)
            => (NotifyStep \/ Condvar_timeout(t))]_vars

\* A waiter on an emulated tier that missed the notification of a lock holder
\* and is now blocked on the event with no time-out.
C11_Witness ==
    \E t \in Threads :
        /\ MUTEX_KIND # "SrwLock"
        /\ t \in missed
        /\ op[t] = "wait"
        /\ pc[t] = "blocked"
        /\ wres[t] = "INFINITE"
        /\ mutex.inner.owner = NoThread

\* C12: a notification made while no thread is suspended changes nothing (the
\* condition variable, the event and every thread are as before), and the
\* host wait of a wait()/wait_timeout() ends only by a step of notify_one() or
\* notify_all() or by its own time-out, never by an earlier notification.
C12_NotifyNotRemembered ==
    /\ [][(NotifyStep /\ Asleep \cup Blocked = {})
          => (cv' = cv /\ pc' = pc /\ op' = op /\ wres' = wres /\ mutex' = mutex)]_vars
    /\ [][\A t \in Threads :
            (op[t] \in WaitOps /\ pc[t] # "idle" /\ ~Woken(t) /\ Woken(t)')
            => (NotifyStep \/ Condvar_timeout(t))]_vars

\* The last notification found no thread suspended, and a thread that began
\* to wait after it is suspended.
C12_Witness ==
    /\ NoThread \in missed
    /\ \E t \in Threads : /\ pc[t] \in {"asleep", "blocked"}
                          /\ op[t] = "wait"
                          /\ wres[t] = "INFINITE"

\* C13: notify_one() on the Modern tier wakes exactly one of the threads
\* suspended in wait and leaves the others suspended; on the Intermediate and
\* Legacy tiers it wakes every thread that is waiting on the event.
C13_NotifyOne ==
    [][\A n \in Threads :
         Condvar_notify_one(n) =>
           IF MUTEX_KIND = "SrwLock"
           THEN Asleep # {} =>
                  /\ Cardinality({u \in Asleep : pc'[u] = "reacquire"}) = 1
                  /\ \A u \in Asleep : pc'[u] \in {"reacquire", "asleep"}
           ELSE \A u \in Blocked : /\ pc'[u] = "native"
                                   /\ op'[u] \in RelockOps
                                   /\ wres'[u] = "WAIT_OBJECT_0"]_vars

\* Modern tier: one thread has been woken while another is still asleep.
C13_Witness ==
    \E t, u \in Threads :
        /\ t # u
        /\ MUTEX_KIND = "SrwLock"
        /\ pc[t] = "reacquire" /\ wres[t] = "nonzero"
        /\ pc[u] = "asleep"

\* C14: notify_all() wakes every thread that is suspended in wait() or
\* wait_timeout() at the time of the call, on every tier; a woken thread
\* returns from the wait normally and as the owner of the lock.
C14_NotifyAll ==
    /\ [][\A n \in Threads :
            Condvar_notify_all(n) =>
              \A u \in Asleep \cup Blocked :
                  /\ Woken(u)'
                  /\ wres'[u] \in {"nonzero", "WAIT_OBJECT_0"}]_vars
    /\ [](\A t \in Threads :
            (pc[t] = "idle" /\ op[t] \in WaitOps \cup RelockOps)
            => (ret[t] \in {"ok", "true", "false"} /\ mutex.inner.owner = t))

\* Two threads woken together: one has returned from wait(), the other has
\* been woken and has not yet got the lock back.
C14_Witness ==
    \E t, u \in Threads :
        /\ t # u
        /\ pc[t] = "idle" /\ op[t] \in {"wait", "wait_relock"} /\ ret[t] = "ok"
        /\ Woken(u) /\ pc[u] \in {"reacquire", "native"}
        /\ wres[u] \in {"nonzero", "WAIT_OBJECT_0"}

\* C15: wait_timeout() returns true exactly when its host wait ended by a
\* notification and false exactly when it ended by the time-out, and in both
\* cases the caller owns the lock when the call returns (with the held flag
\* set on the emulated tiers).
C15_WaitTimeoutResult ==
    [][\A t \in Threads :
         (op[t] \in {"wait_timeout", "wait_timeout_relock"}
          /\ pc[t] # "idle" /\ pc'[t] = "idle")
         => /\ ret'[t] \in {"true", "false"}
            /\ (ret'[t] = "true") <=> (wres[t] \in {"nonzero", "WAIT_OBJECT_0"})
            /\ (ret'[t] = "false") <=> (wres[t] \in {"zero", "WAIT_TIMEOUT"})
            /\ mutex'.inner.owner = t
            /\ (MUTEX_KIND # "SrwLock") => mutex'.held]_vars

\* A wait_timeout() that timed out has returned false to a caller that owns
\* the lock again.
C15_Witness ==
    \E t \in Threads :
        /\ pc[t] = "idle"
        /\ op[t] \in {"wait_timeout", "wait_timeout_relock"}
        /\ ret[t] = "false"
        /\ mutex.inner.owner = t

\* C16: liveness on the emulated tiers.  Under fair scheduling, and provided
\* that no thread keeps the paired lock for ever, a thread that was waiting on
\* the event when notify_one() or notify_all() pulsed it returns from wait().
C16_NotifiedWaiterReturns ==
    (\A u \in Threads : []<>(mutex.inner.owner # u))
    => \A t \in Threads :
         (MUTEX_KIND # "SrwLock" /\ op[t] = "wait_relock" /\ pc[t] # "idle")
         ~> (pc[t] = "idle" /\ op[t] = "wait_relock" /\ ret[t] = "ok")

\* A waiter released by a pulse has returned from wait() on an emulated tier.
C16_Witness ==
    \E t \in Threads :
        /\ MUTEX_KIND # "SrwLock"
        /\ op[t] = "wait_relock"
        /\ pc[t] = "idle"
        /\ ret[t] = "ok"
        /\ mutex.inner.owner = t

\* ------------------------------------------------------------ MovableRWLock properties

\* The boxes that are allocated and not freed.
LiveBoxes == {p \in Threads : heap[p].life = "boxed"}

\* The threads that hold the MovableRWLock in some mode.
RWHolders == {t \in Threads : rwacq[t].r + rwacq[t].w > 0}

\* C17: lazy install under a race.  The word changes only from Null to the
\* pointer of one box and never again (one compare-exchange succeeds), every
\* pointer a remutex() call has returned, first or later, is that installed
\* pointer, and every thread works on the installed box.
C17_OneInstall ==
    /\ [](/\ Cardinality(remret) <= 1
          /\ remret # {} => (rwlock.lock # Null /\ remret = {rwlock.lock})
          /\ \A t \in Threads : re[t].ptr # Null => re[t].ptr = rwlock.lock)
    /\ [][rwlock.lock # Null => rwlock'.lock = rwlock.lock]_vars

\* All threads raced for the install: one box is installed, two threads lost
\* and have freed theirs, and calls made after the race have returned.
C17_Witness ==
    /\ Quiet
    /\ rwlock.life = "new"
    /\ rwlock.lock # Null
    /\ remret = {rwlock.lock}
    /\ Cardinality({p \in Threads : heap[p].life = "freed"}) >= 2
    /\ round = MaxCalls

\* C18: no leak and no wrong free.  No box is freed twice, the installed box
\* is not freed while the lock lives, a box is freed during the install only
\* by the thread that allocated it (the loser of the compare-exchange), and
\* when no call is in progress exactly one box is allocated and not freed.
C18_NoLeakNoWrongFree ==
    /\ [](/\ \A p \in Threads : heap[p].life # "double_free"
          /\ (rwlock.life = "new" /\ rwlock.lock # Null)
               => heap[rwlock.lock].life = "boxed"
          /\ (rwlock.life = "new" /\ rwlock.lock # Null /\ Quiet)
               => Cardinality(LiveBoxes) = 1)
    /\ [][\A p \in Threads :
            (heap[p].life = "boxed" /\ heap'[p].life # "boxed" /\ rwlock'.life = "new")
            => (p # rwlock.lock /\ atomic_boxed_init_free(p))]_vars

\* A loser has freed its own box and the installed box is the only live one.
C18_Witness ==
    /\ Quiet
    /\ rwlock.life = "new"
    /\ rwlock.lock # Null
    /\ LiveBoxes = {rwlock.lock}
    /\ \E p \in Threads : heap[p].life = "freed" /\ heap[p].inner.obj \in {"deleted", "closed"}

\* C19: on the Intermediate and Legacy tiers the movable Read/Write Lock is
\* exclusive in every mode: at most one thread holds it, the holder owns the
\* native primitive of the installed fallback lock, and a try_read() that
\* returns while another thread holds a read lock returns false (a call that
\* unwinds from a failed CreateMutexA of its lazy install does not return).
C19_FallbackExclusive ==
    /\ [](MUTEX_KIND # "SrwLock" =>
            /\ Cardinality(RWHolders) <= 1
            /\ \A t \in RWHolders : /\ rwlock.lock # Null
                                    /\ heap[rwlock.lock].inner.owner = t)
    /\ [][\A t \in Threads :
            (MUTEX_KIND # "SrwLock" /\ op[t] = "try_read"
             /\ pc[t] # "idle" /\ pc'[t] = "idle" /\ ret'[t] # "panic"
             /\ \E u \in Threads \ {t} : rwacq[u].r > 0)
            => ret'[t] = "false"]_vars

\* One thread holds a read lock and the try_read() of another returned false.
C19_Witness ==
    \E t, u \in Threads :
        /\ t # u
        /\ MUTEX_KIND # "SrwLock"
        /\ rwacq[t].r > 0
        /\ pc[u] = "idle" /\ op[u] = "try_read" /\ ret[u] = "false"

\* C20: on the Modern tier the movable Read/Write Lock is a reader/writer
\* lock.  The shared holds and the exclusive owner of the SRW lock are those
\* of the callers; a writer holds it alone; try_read() fails exactly while a
\* writer holds it and try_write() exactly while a reader or writer holds it;
\* read_unlock() gives up one shared hold and write_unlock() the exclusive one.
C20_ModernReaderWriter ==
    /\ [](MUTEX_KIND = "SrwLock" =>
            /\ \A t \in Threads : /\ rwlock.readers[t] = rwacq[t].r
                                  /\ (rwlock.writer = t) <=> (rwacq[t].w > 0)
            /\ rwlock.writer # NoThread => \A t \in Threads : rwlock.readers[t] = 0
            /\ Cardinality({t \in Threads : rwacq[t].w > 0}) <= 1)
    /\ [][\A t \in Threads :
            (MUTEX_KIND = "SrwLock" /\ pc[t] # "idle" /\ pc'[t] = "idle") =>
              /\ op[t] = "try_read" =>
                   ((ret'[t] = "false") <=> (rwlock.writer # NoThread))
              /\ op[t] = "try_write" =>
                   ((ret'[t] = "false") <=>
                      (rwlock.writer # NoThread \/ \E u \in Threads : rwlock.readers[u] > 0))
              /\ op[t] = "read_unlock" =>
                   /\ rwlock'.readers[t] = rwlock.readers[t] - 1
                   /\ rwlock'.writer = rwlock.writer
              /\ op[t] = "write_unlock" =>
                   /\ rwlock'.writer = NoThread
                   /\ rwlock'.readers = rwlock.readers]_vars

\* Two threads hold read locks at the same time on the Modern tier.
C20_Witness ==
    \E t, u \in Threads :
        /\ t # u
        /\ MUTEX_KIND = "SrwLock"
        /\ rwacq[t].r > 0
        /\ rwacq[u].r > 0
        /\ rwlock.writer = NoThread

\* ------------------------------------------------------------ life cycle properties

\* C25: a failed creation of the OS object is fatal and writes nothing.  An
\* init() of the Mutex fails only on the Legacy tier and leaves the handle
\* null as new() made it; an init() of the Condvar fails only on the
\* Intermediate and Legacy tiers and leaves the word zero; the failed object
\* is never locked or waited on.
C25_InitFailureWritesNothing ==
    /\ mutex.life = "failed" =>
         /\ MUTEX_KIND = "Legacy"
         /\ mutex.inner = Legacy_new
         /\ mutex.held = FALSE
    /\ cv.life = "failed" =>
         /\ MUTEX_KIND # "SrwLock"
         /\ cv.inner = "zero"
         /\ cv.signalled = FALSE

\* Both creations have failed: CreateMutexA in Mutex::init and CreateEventA in
\* Condvar::init on the Legacy tier.
C25_Witness ==
    /\ MUTEX_KIND = "Legacy"
    /\ mutex.life = "failed"
    /\ cv.life = "failed"

\* C27: on the Modern tier the Mutex is a valid lock from new() on, whether
\* or not init() or destroy() was called, and init() and destroy() leave the
\* SRW lock as it is; on the Intermediate and Legacy tiers the Mutex has no OS
\* object after new() (critical section uninitialised, handle null) and has
\* one exactly after a successful init().
C27_NewAndInit ==
    mutex.life # "none" =>
      CASE MUTEX_KIND = "SrwLock" ->
             /\ mutex.inner.obj = "ready"
             /\ mutex.life \in {"new", "init", "destroyed"}
             /\ mutex.life = "destroyed" => mutex.inner = Srw_new
        [] MUTEX_KIND = "CriticalSection" ->
             /\ mutex.life = "new" => mutex.inner = Cs_new
             /\ mutex.life = "init" <=> mutex.inner.obj = "ready"
        [] MUTEX_KIND = "Legacy" ->
             /\ mutex.life \in {"new", "failed"} => mutex.inner = Legacy_new
             /\ mutex.life = "init" <=> mutex.inner.obj = "ready"

\* A Modern-tier Mutex is locked although init() was never called on it.
C27_Witness ==
    /\ MUTEX_KIND = "SrwLock"
    /\ mutex.life = "new"
    /\ \E t \in Threads : mutex.inner.owner = t /\ acq[t] = 1

\* C28: after Condvar::destroy() the event handle is closed on the
\* Intermediate and Legacy tiers; on the Modern tier the word of the
\* condition variable is what it was (zero) and no handle was ever closed.
C28_CondvarDestroy ==
    /\ cv.life = "destroyed" =>
         IF MUTEX_KIND = "SrwLock" THEN cv.inner = "zero" ELSE cv.inner = "closed"
    /\ cv.inner = "closed" => (cv.life = "destroyed" /\ MUTEX_KIND # "SrwLock")

\* The event created by init() has been closed by destroy().
C28_Witness ==
    /\ MUTEX_KIND # "SrwLock"
    /\ cv.life = "destroyed"
    /\ cv.inner = "closed"

\* ------------------------------------------------------------ held flag properties

\* C29: the held flag on the Intermediate and Legacy tiers.  Whenever no
\* thread is inside a call, held is true exactly when some thread owns the
\* native primitive.
C29_HeldFlagInvariant ==
    (MUTEX_KIND # "SrwLock" /\ MutexUsable /\ Quiet)
    => (mutex.held <=> mutex.inner.owner # NoThread)

\* C30: a try_lock() that returns false has no effect.  The failing native
\* try changes nothing, and a try_lock() of the holder that returned false
\* leaves the caller as the owner with the ownership count of its
\* acquisitions and, on the Intermediate and Legacy tiers, the held flag set
\* as it was when the call read it.
C30_TryLockFalseNoEffect ==
    \A t \in Threads :
        (pc[t] = "idle" /\ op[t] = "try_lock" /\ ret[t] = "false" /\ obs[t] = t)
        => /\ mutex.inner.owner = t
           /\ mutex.inner.count = acq[t]
           /\ MUTEX_KIND # "SrwLock" => mutex.held

\* ------------------------------------------------------------ MovableRWLock life cycle

\* C22: MovableRWLock::destroy().  On the Modern tier, and on the other
\* tiers while the word is still 0, the call allocates nothing, frees
\* nothing and leaves the word as it is; with a fallback lock installed it
\* destroys and frees exactly the box the word names and no other box.
C22_DestroyEffect ==
    [][(rwlock.life = "new" /\ rwlock'.life = "destroyed") =>
         /\ rwlock'.lock = rwlock.lock
         /\ IF MUTEX_KIND = "SrwLock" \/ rwlock.lock = Null
            THEN heap' = heap
            ELSE /\ heap[rwlock.lock].life = "boxed"
                 /\ heap'[rwlock.lock].life = "freed"
                 /\ heap'[rwlock.lock].inner =
                      Mutex_destroy_inner(MUTEX_KIND, heap[rwlock.lock].inner)
                 /\ \A p \in Threads \ {rwlock.lock} : heap'[p] = heap[p]]_vars

\* A lock with an installed fallback Mutex was destroyed: its box is freed
\* and the OS object inside is destroyed.
C22_Witness ==
    /\ MUTEX_KIND # "SrwLock"
    /\ rwlock.life = "destroyed"
    /\ rwlock.lock # Null
    /\ heap[rwlock.lock].life = "freed"
    /\ heap[rwlock.lock].inner.obj \notin {"ready", "uninit", "null"}

\* The MovableRWLock is held by no thread in any mode.
RWUnheld ==
    IF MUTEX_KIND = "SrwLock"
    THEN /\ rwlock.writer = NoThread
         /\ \A u \in Threads : rwlock.readers[u] = 0
    ELSE /\ rwlock.lock # Null
         /\ heap[rwlock.lock].life = "boxed"
         /\ heap[rwlock.lock].held = FALSE
         /\ heap[rwlock.lock].inner.owner = NoThread

\* C21: on every tier the sequence write(), write_unlock(), read(),
\* read_unlock() of one thread returns normally call by call and leaves the
\* MovableRWLock unheld (on the fallback tiers the installed Mutex is unowned
\* and its held flag false), and the try_write() that follows returns true.
\* The one call that can fail is the first write() on the Legacy tier, when
\* the host refuses the mutex object of the lazy install: nothing is
\* installed and the sequence ends there.
C21_SequenceLeavesLockFree ==
    \A t \in Threads :
        (scen = "rwseq" /\ pc[t] = "idle" /\ op[t] # "none") =>
            /\ ret[t] = "panic" =>
                  /\ op[t] = "write" /\ round = 1
                  /\ MUTEX_KIND = "Legacy" /\ rwlock.lock = Null
            /\ (op[t] = "read_unlock" /\ round = 4) => RWUnheld
            /\ op[t] = "try_write" => ret[t] = "true"

\* The sequence has run to its end on a fallback tier and try_write()
\* returned true.
C21_Witness ==
    /\ scen = "rwseq"
    /\ MUTEX_KIND # "SrwLock"
    /\ round = Len(RWSeq)
    /\ \E t \in Threads :
         /\ pc[t] = "idle"
         /\ op[t] = "try_write"
         /\ ret[t] = "true"
         /\ rwacq[t].w = 1

\* ------------------------------------------------------------ host wait results

\* A step in which wait() or wait_timeout() of thread t panics because the
\* event wait gave an unexpected result.
WaitPanics(t) ==
    /\ MUTEX_KIND # "SrwLock"
    /\ op[t] \in WaitOps
    /\ pc[t] # "idle"
    /\ pc'[t] = "idle"
    /\ ret'[t] = "panic"

C23_StaticRecursionPanics ==
    (scen = "static" /\ MUTEX_KIND # "SrwLock") =>
        \A t \in Threads :
            /\ rwacq[t].r + rwacq[t].w <= 1
            /\ (pc[t] = "idle" /\ op[t] \in RWLockOps /\ ret[t] = "panic") =>
                 /\ rwacq[t].r + rwacq[t].w = 1
                 /\ slock.held = TRUE
                 /\ slock.lock # Null
                 /\ heap[slock.lock].inner.owner = t
                 /\ heap[slock.lock].inner.count = 1

\* One thread alone has used the lock and its second recursive call has
\* panicked like its first; it still holds the lock.
C23_Witness ==
    /\ scen = "static"
    /\ MUTEX_KIND = "CriticalSection"
    /\ round = MaxDepth
    /\ \E t \in Threads :
         /\ pc[t] = "idle"
         /\ op[t] \in RWLockOps
         /\ ret[t] = "panic"
         /\ t \in RWLockHolders
         /\ \A u \in Threads \ {t} : op[u] = "none"

\* C24: the lazy install of the static RWLock.  On the Intermediate and
\* Legacy tiers every pointer remutex() has returned is the one pointer in
\* the word, every thread works on that box, when no call is in progress
\* exactly one box is live, at most one thread holds the lock and the holder
\* owns the installed critical section; every box, on either tier, is a
\* critical section (initialised by InitializeCriticalSection, deleted by
\* DeleteCriticalSection when a loser frees it), never a handle.
C24_StaticInstall ==
    (scen = "static" /\ MUTEX_KIND # "SrwLock") =>
        /\ Cardinality(remret) <= 1
        /\ remret # {} => (slock.lock # Null /\ remret = {slock.lock})
        /\ \A t \in Threads : re[t].ptr # Null => re[t].ptr = slock.lock
        /\ slock.lock # Null => heap[slock.lock].life = "boxed"
        /\ (slock.lock # Null /\ Quiet) => LiveBoxes = {slock.lock}
        /\ Cardinality(RWLockHolders) <= 1
        /\ \A t \in RWLockHolders :
             slock.lock # Null /\ heap[slock.lock].inner.owner = t
        /\ \A p \in Threads :
             /\ heap[p].life # "double_free"
             /\ heap[p].life = "boxed" => heap[p].inner.obj = "ready"
             /\ heap[p].life = "freed" => heap[p].inner.obj = "deleted"

\* On the Legacy tier two threads raced for the first lock(): one box is
\* installed, the loser has deleted and freed its critical section, and one
\* of the two holds the lock while the other waits to enter.
C24_Witness ==
    /\ scen = "static"
    /\ MUTEX_KIND = "Legacy"
    /\ slock.lock # Null
    /\ \E p \in Threads : heap[p].life = "freed" /\ heap[p].inner.obj = "deleted"
    /\ \E t, u \in Threads :
         /\ t \in RWLockHolders
         /\ u # t
         /\ pc[u] = "s_native"
         /\ re[u].ptr = slock.lock

\* ------------------------------------------------------------ correct use

\* C31: no false recursion panic.  On the Intermediate and Legacy tiers,
\* while every thread keeps the contract of the Mutex, no lock() (and no
\* relock at the end of wait()) panics, a try_lock() returns false only when
\* its native try found another thread as the owner, and a thread that has
\* just acquired the native primitive does so with ownership count 1 and
\* reads held = false.
C31_NoFalseRecursionPanic ==
    (scen = "correct" /\ MUTEX_KIND # "SrwLock") =>
        \A t \in Threads :
            /\ ret[t] # "panic"
            /\ (pc[t] = "idle" /\ op[t] = "try_lock" /\ ret[t] = "false")
                 => obs[t] \notin {NoThread, t}
            /\ pc[t] = "flag" =>
                 /\ mutex.inner.owner = t
                 /\ mutex.inner.count = 1
                 /\ mutex.held = FALSE
            /\ pc[t] \notin {"clear", "release"} \/ op[t] \in {"unlock", "wait"}

\* Three threads contended on a fallback tier: one holds the lock after
\* lock(), one has unlocked before, one got false from try_lock() while
\* another thread was the owner.
C31_Witness ==
    /\ scen = "correct"
    /\ MUTEX_KIND # "SrwLock"
    /\ \E t, u, w \in Threads :
         /\ Returned(t, "lock") /\ ret[t] = "ok" /\ acq[t] = 1
         /\ Returned(u, "unlock") /\ ret[u] = "ok"
         /\ Returned(w, "try_lock") /\ ret[w] = "false" /\ obs[w] \in Threads \ {w}

\* ------------------------------------------------------------ storage word

\* C32: the storage word of the MovableRWLock and of the static RWLock on
\* the fallback path.  A step changes the word only from 0 to a pointer, and
\* that step is the compare-exchange of atomic_boxed_init storing the pointer
\* of the caller's own box; no other step of lock, try, unlock or destroy
\* writes it.  A load that reads a non-zero word returns that pointer and
\* allocates nothing.
C32_WordWrittenOnce ==
    [][/\ rwlock'.lock # rwlock.lock =>
            /\ rwlock.lock = Null
            /\ \E t \in Threads :
                 /\ atomic_boxed_init_cas(t)
                 /\ rwlock'.lock = re[t].re
                 /\ heap[re[t].re].life = "boxed"
       /\ slock'.lock # slock.lock =>
            /\ slock.lock = Null
            /\ \E t \in Threads :
                 /\ RWLock_remutex_cas(t)
                 /\ slock'.lock = re[t].re
                 /\ heap[re[t].re].life = "boxed"
       /\ \A t \in Threads :
            /\ (pc[t] = "rw_load" /\ pc'[t] # "rw_load" /\ rwlock.lock # Null) =>
                 /\ heap' = heap
                 /\ pc'[t] # "rw_alloc"
                 /\ re'[t].ptr = rwlock.lock
            /\ (pc[t] = "s_load" /\ pc'[t] # "s_load" /\ slock.lock # Null) =>
                 /\ heap' = heap
                 /\ pc'[t] # "s_alloc"
                 /\ re'[t].ptr = slock.lock]_vars

\* A MovableRWLock with an installed fallback lock was used by a later call
\* that loaded the pointer, and then destroyed: the word still holds the
\* pointer.
C32_Witness ==
    /\ MUTEX_KIND # "SrwLock"
    /\ rwlock.life = "destroyed"
    /\ rwlock.lock # Null
    /\ remret = {rwlock.lock}
    /\ \E t \in Threads : Returned(t, "write_unlock") /\ ret[t] = "ok"

\* ------------------------------------------------------------ MovableRWLock recursion

\* C33: recursion on the MovableRWLock, Intermediate and Legacy tiers.  No
\* read(), write(), try_read() or try_write() of a thread that already holds
\* the lock, in either mode, succeeds: read() and write() panic, the try
\* calls return false, so no thread ever holds the lock twice.
C33_FallbackNoRecursion ==
    MUTEX_KIND # "SrwLock" =>
        \A t \in Threads :
            /\ rwacq[t].r + rwacq[t].w <= 1
            /\ (pc[t] = "idle" /\ op[t] \in ReadOps \cup WriteOps
                  /\ ret[t] \in {"ok", "true"}) => rwacq[t].r + rwacq[t].w = 1

\* C34: the static RWLock is exclusive in both modes on every tier.  At
\* most one thread holds it, whether by read(), write() or lock(), so two
\* readers never hold it together; the holder is the exclusive owner of the
\* SRW lock on the Modern tier and of the installed critical section on the
\* other tiers.
C34_StaticExclusive ==
    scen = "static" =>
        /\ Cardinality(RWLockHolders) <= 1
        /\ Cardinality({t \in Threads : rwacq[t].r > 0}) <= 1
        /\ \A t \in RWLockHolders :
             IF MUTEX_KIND = "SrwLock"
             THEN slock.writer = t
             ELSE slock.lock # Null /\ heap[slock.lock].inner.owner = t

\* On the Modern tier one thread holds the static RWLock by read() while
\* another thread's read() waits for it.
C34_Witness ==
    /\ scen = "static"
    /\ MUTEX_KIND = "SrwLock"
    /\ \E t, u \in Threads :
         /\ t # u
         /\ rwacq[t].r = 1
         /\ slock.writer = t
         /\ pc[u] = "s_srw"
         /\ op[u] = "read"

\* ------------------------------------------------------------ held flag on the Modern tier

\* C35: on the Modern tier the held flag of the Mutex and of the static
\* RWLock is never used.  No thread is ever at a step that reads or writes
\* it (flag_locked, held = false, the recursion branch), and both flags keep
\* the value false of new().
C35_ModernHeldUnused ==
    MUTEX_KIND = "SrwLock" =>
        /\ mutex.held = FALSE
        /\ slock.held = FALSE
        /\ \A t \in Threads :
             pc[t] \notin {"flag", "clear", "s_flag", "s_back", "s_clear"}

\* On the Modern tier one thread has come back from wait() and holds the
\* Mutex, another has unlocked it before, and a third got false from
\* try_lock().
C35_Witness ==
    /\ MUTEX_KIND = "SrwLock"
    /\ phase = "main"
    /\ \E t, u, w \in Threads :
         /\ Returned(t, "unlock") /\ ret[t] = "ok"
         /\ Returned(u, "wait") /\ ret[u] = "ok" /\ acq[u] = 1
         /\ Returned(w, "try_lock") /\ ret[w] = "false"

\* ------------------------------------------------------------ failed host wait

\* C36 as stated: when wait() or wait_timeout() panics on an unexpected
\* result of the event wait, the caller leaves the call without holding the
\* lock and the held flag is false.
C36_WaitPanicHeldFalse ==
    [][\A t \in Threads :
         WaitPanics(t) =>
            /\ acq'[t] = 0
            /\ mutex'.inner.owner # t
            /\ mutex'.held = FALSE]_vars

\* C36, amended: when wait() or wait_timeout() panics on an unexpected result
\* of the event wait, the panic comes after the call's mutex.unlock() and
\* before its mutex.lock(): mutex.unlock() gave up one acquisition of the
\* caller, and the panic writes neither the lock nor the held flag nor takes
\* the acquisition again.  A caller with no acquisition left does not own the
\* native primitive; a caller with one left (it held the lock twice) still
\* owns it, with held false.  held is true only when another thread has
\* acquired the lock since the caller's mutex.unlock(), and then that thread
\* owns the native primitive.
C36_WaitPanicLeavesUnlocked ==
    [][\A t \in Threads :
         /\ (MUTEX_KIND # "SrwLock" /\ op[t] \in WaitOps
               /\ pc[t] = "release" /\ pc'[t] = "event")
              => acq'[t] = acq[t] - 1
         /\ WaitPanics(t) =>
              /\ pc[t] \in {"event", "blocked"}
              /\ mutex' = mutex
              /\ acq' = acq
              /\ (acq'[t] = 0) = (mutex'.inner.owner # t)
              /\ mutex'.held => mutex'.inner.owner \in Threads \ {t}]_vars

\* wait() of one thread has panicked on a failed event wait while another
\* thread, which took the lock after the waiter released it, holds it.
C36_Witness ==
    /\ MUTEX_KIND # "SrwLock"
    /\ \E t, u \in Threads :
         /\ t # u
         /\ pc[t] = "idle" /\ op[t] = "wait" /\ ret[t] = "panic" /\ acq[t] = 0
         /\ acq[u] = 1
         /\ mutex.inner.owner = u
         /\ mutex.held

\* C37: the tier tag has one writer, the selector's init.  Until init has run
\* the tag reads SrwLock whatever the host supports; init runs after every
\* eager probe's initialiser, so the flags it reads are final and the tag it
\* writes is the tier of the final flags; running init again with the same
\* flags leaves the tag as it was.
C37_TagWrittenOnceFromFinalFlags ==
    [][/\ (phase' # "main" => MUTEX_KIND' = "SrwLock")
       /\ (MUTEX_KIND' # MUTEX_KIND => phase = "crt" /\ phase' = "main")
       /\ (phase # "xcu" => AllProbed /\ AVAILABLE' = AVAILABLE)
       /\ (phase' = "main" =>
              MUTEX_KIND' = select_kind(available("TryAcquireSRWLockExclusive")',
                                        available("TryEnterCriticalSection")'))
       /\ (phase = "main" => MUTEX_KIND' = MUTEX_KIND)]_vars

\* init has run, written a tag other than the initial one, and been run again.
C37_Witness ==
    /\ scen = "boot"
    /\ phase = "main"
    /\ HasRun("init")
    /\ MUTEX_KIND = "Legacy"
    /\ mutex.life = "init"

\* C38: the lazy probe under racing first calls, all lookups of the capability
\* giving the same answer.  Every available() that has returned gave the
\* lookup's answer; when PTR is non-zero AVAILABLE has its final value, the
\* lookup's answer; when AVAILABLE is true a non-zero PTR is the entry point,
\* not the fallback; a call that began with PTR non-zero performs no lookup.
C38_LazyProbe ==
    /\ \A t \in Threads :
         (op[t] = "available" /\ pc[t] = "idle") =>
             ret[t] = IF lazy.host = "found" THEN "true" ELSE "false"
    /\ lazy.PTR # "zero" => lazy.AVAILABLE = (lazy.host = "found")
    /\ (lazy.AVAILABLE /\ lazy.PTR # "zero") => lazy.PTR = "entry"
    /\ \A t \in Threads : local[t].late => ~local[t].looked

\* Two first calls raced, both looked the capability up and found it; a
\* third call began after PTR was set.
C38_Witness ==
    /\ \A t \in Threads : pc[t] = "idle"
    /\ local[1].looked /\ local[2].looked
    /\ op[1] = "available" /\ ret[1] = "true"
    /\ op[2] = "call" /\ ret[2] = "entry"
    /\ local[3].late /\ op[3] = "option" /\ ret[3] = "Some(entry)"

====
